---- MODULE Spec2Model ----
(***************************************************************************)
(* VoxDose core: the analysis pipeline analyze_wav_spl_f0, the two frame   *)
(* levelers SPL_fast / SPL_fast_C_TH, the moving average and the dose      *)
(* integrator DOSI.                                                        *)
(*                                                                         *)
(* Numbers.  The code computes in IEEE doubles.  The model computes in     *)
(* exact rationals extended with +inf, -inf and nan, which is what the     *)
(* doubles approximate; rounding error is not modelled.  A number is a     *)
(* record [k, n, d]: k = "fin" with value n/d in lowest terms (d > 0), or  *)
(* k in {"pinf", "ninf", "nan"} (n = 0, d = 1), or k = "big": a finite     *)
(* positive quotient by one of the code's epsilons (1e-12), larger than    *)
(* every value the model otherwise forms.                                  *)
(*                                                                         *)
(* Time is in seconds (sample index / Fs), levels in dB, F0 in Hz.         *)
(***************************************************************************)
EXTENDS Integers, Sequences, FiniteSets, TLC

\* ---------------------------------------------------------------- bounds
\* Longest monitored recording, in samples.
MaxSamples == 4
\* Longest calibration recording, in samples.
MaxCalSamples == 8
\* Longest moving-average window offered, in analysis frames.
MaxWin == 2
\* Most rows of a data array handed to DOSI directly.
MaxRows == 3

\* ------------------------------------------------------- extended numbers
RECURSIVE Gcd(_, _)
Gcd(a, b) == IF b = 0 THEN a ELSE Gcd(b, a % b)

Abs(a) == IF a < 0 THEN -a ELSE a

Fin(n, d) ==
    LET s == IF d < 0 THEN -1 ELSE 1
        g == Gcd(Abs(n), Abs(d))
    IN  [k |-> "fin", n |-> (s * n) \div g, d |-> (s * d) \div g]

I(n) == [k |-> "fin", n |-> n, d |-> 1]
PInf == [k |-> "pinf", n |-> 0, d |-> 1]
NInf == [k |-> "ninf", n |-> 0, d |-> 1]
NaN  == [k |-> "nan", n |-> 0, d |-> 1]
Big  == [k |-> "big", n |-> 0, d |-> 1]
Zero == I(0)

IsFin(a) == a.k = "fin"
\* np.isfinite
XIsFinite(a) == a.k \in {"fin", "big"}
\* -1, 0, 1 for a value that is not nan
Sign(a) ==
    CASE a.k = "fin"  -> (IF a.n > 0 THEN 1 ELSE IF a.n < 0 THEN -1 ELSE 0)
      [] a.k = "pinf" -> 1
      [] a.k = "big"  -> 1
      [] a.k = "ninf" -> -1
      [] OTHER        -> 0

XNeg(a) ==
    CASE a.k = "fin"  -> Fin(-a.n, a.d)
      [] a.k = "pinf" -> NInf
      [] a.k = "ninf" -> PInf
      [] OTHER        -> NaN

XAdd(a, b) ==
    CASE a.k = "nan" \/ b.k = "nan" -> NaN
      [] a.k = "fin" /\ b.k = "fin" -> Fin(a.n * b.d + b.n * a.d, a.d * b.d)
      [] a.k = "pinf" /\ b.k = "ninf" -> NaN
      [] a.k = "ninf" /\ b.k = "pinf" -> NaN
      [] a.k \in {"pinf", "ninf"} -> a
      [] b.k \in {"pinf", "ninf"} -> b
      [] OTHER -> Big

XSub(a, b) == XAdd(a, XNeg(b))

XMul(a, b) ==
    CASE a.k = "nan" \/ b.k = "nan" -> NaN
      [] a.k = "fin" /\ b.k = "fin" -> Fin(a.n * b.n, a.d * b.d)
      [] Sign(a) = 0 \/ Sign(b) = 0 ->
            (IF a.k \in {"pinf", "ninf"} \/ b.k \in {"pinf", "ninf"} THEN NaN ELSE Zero)
      [] a.k \in {"pinf", "ninf"} \/ b.k \in {"pinf", "ninf"} ->
            (IF Sign(a) * Sign(b) > 0 THEN PInf ELSE NInf)
      [] OTHER -> (IF Sign(a) * Sign(b) > 0 THEN Big ELSE NaN)

\* numpy float division: x/0 is +-inf, 0/0 is nan (a warning, no exception)
XDiv(a, b) ==
    CASE a.k = "nan" \/ b.k = "nan" -> NaN
      [] a.k = "fin" /\ b.k = "fin" ->
            (IF b.n # 0 THEN Fin(a.n * b.d, a.d * b.n)
             ELSE IF a.n > 0 THEN PInf ELSE IF a.n < 0 THEN NInf ELSE NaN)
      [] a.k \in {"pinf", "ninf"} /\ b.k \in {"pinf", "ninf"} -> NaN
      [] a.k \in {"pinf", "ninf"} ->
            (IF Sign(b) >= 0 THEN a ELSE XNeg(a))
      [] b.k \in {"pinf", "ninf"} -> Zero
      [] a.k = "big" /\ b.k = "big" -> NaN
      [] a.k = "big" -> (IF Sign(b) > 0 THEN Big ELSE NaN)
      [] OTHER -> Zero

\* IEEE comparisons: every comparison with nan is false
XLt(a, b) ==
    CASE a.k = "nan" \/ b.k = "nan" -> FALSE
      [] a.k = "fin" /\ b.k = "fin" -> a.n * b.d < b.n * a.d
      [] a.k = "ninf" -> b.k # "ninf"
      [] b.k = "pinf" -> a.k # "pinf"
      [] a.k = "fin" /\ b.k = "big" -> TRUE
      [] OTHER -> FALSE

XGt(a, b) == XLt(b, a)
XEq(a, b) == a.k # "nan" /\ b.k # "nan" /\ a = b
XIsZero(a) == XEq(a, Zero)
\* max(a, eps) for an epsilon of the code (1e-9, 1e-12): a itself when a > 0
\* (every positive value of the model exceeds the epsilon), else "eps"
\* Python's max(a, b) returns a unless b > a, so max(nan, eps) is nan.
AtMostEps(a) == (a.k = "fin" /\ a.n <= 0) \/ a.k = "ninf"
\* x / max(a, eps)
XDivFloored(x, a) ==
    IF AtMostEps(a)
    THEN (CASE x.k = "fin" -> (IF x.n > 0 THEN Big ELSE IF x.n = 0 THEN Zero ELSE NaN)
            [] OTHER -> x)
    ELSE XDiv(x, a)

RECURSIVE XSum(_)
XSum(s) == IF s = << >> THEN Zero ELSE XAdd(Head(s), XSum(Tail(s)))

Min2(a, b) == IF a < b THEN a ELSE b
Max2(a, b) == IF a > b THEN a ELSE b

ZerosLike(s) == [i \in 1..Len(s) |-> Zero]
Take(s, n) == SubSeq(s, 1, Min2(n, Len(s)))

\* np.std(s) ** 2: the population variance.  The code returns the standard
\* deviation, its square root; the model keeps the square (the root is
\* irrational), which is zero, equal or ordered exactly when the root is.
XVar(s) ==
    IF s = << >> THEN NaN
    ELSE LET m == XDiv(XSum(s), I(Len(s)))
             sq == [i \in 1..Len(s) |-> XMul(XSub(s[i], m), XSub(s[i], m))]
         IN  XDiv(XSum(sq), I(Len(s)))

\* s with x inserted before the first element greater than x (s sorted)
RECURSIVE Insert(_, _)
Insert(x, s) ==
    IF s = << >> THEN <<x>>
    ELSE IF XLt(x, Head(s)) THEN <<x>> \o s
    ELSE <<Head(s)>> \o Insert(x, Tail(s))

RECURSIVE Sort(_)
Sort(s) == IF s = << >> THEN << >> ELSE Insert(Head(s), Sort(Tail(s)))

\* np.median of a non-empty sequence
Median(s) ==
    LET o == Sort(s)
        n == Len(s)
    IN  IF n % 2 = 1 THEN o[(n + 1) \div 2]
        ELSE XDiv(XAdd(o[n \div 2], o[n \div 2 + 1]), I(2))

\* ------------------------------------------ floating point for the powers
\* The integrands of dosi.py take powers and roots.  They are computed in
\* decimal floating point of four significant digits, [m * 10^e] with
\* 1000 <= |m| <= 9999, with the exponent range of a double: a result of
\* 1.798e308 or more overflows, one below 1e-324 is 0.
DZero == [k |-> "fin", m |-> 0, e |-> 0]
DInf == [k |-> "inf", m |-> 1, e |-> 0]
DNaN == [k |-> "nan", m |-> 0, e |-> 0]
\* a Python float operation that raised OverflowError
DRaise == [k |-> "raise", m |-> 0, e |-> 0]

RECURSIVE DNorm(_, _)
DNorm(m, e) ==
    IF m = 0 THEN DZero
    ELSE IF Abs(m) >= 10000 THEN DNorm((IF m < 0 THEN -((-m) \div 10) ELSE m \div 10), e + 1)
    ELSE IF Abs(m) < 1000 THEN DNorm(m * 10, e - 1)
    ELSE IF e > 305 \/ (e = 305 /\ Abs(m) >= 1798) THEN [DInf EXCEPT !.m = IF m < 0 THEN -1 ELSE 1]
    ELSE IF e < -327 THEN DZero
    ELSE [k |-> "fin", m |-> m, e |-> e]

\* the literal m * 10^e
D(m, e) == DNorm(m, e)

RECURSIVE Pow10Int(_)
Pow10Int(n) == IF n = 0 THEN 1 ELSE 10 * Pow10Int(n - 1)

DSign(a) == IF a.m > 0 THEN 1 ELSE IF a.m < 0 THEN -1 ELSE 0
DBad(a, b) == a.k = "raise" \/ b.k = "raise"
DNeg(a) == IF a.k \in {"fin", "inf"} THEN [a EXCEPT !.m = -a.m] ELSE a

DMul(a, b) ==
    IF DBad(a, b) THEN DRaise
    ELSE IF a.k = "nan" \/ b.k = "nan" THEN DNaN
    ELSE IF a.k = "inf" \/ b.k = "inf"
         THEN (IF DSign(a) * DSign(b) = 0 THEN DNaN
               ELSE [DInf EXCEPT !.m = DSign(a) * DSign(b)])
    ELSE DNorm(a.m * b.m, a.e + b.e)

\* a / b for b that is not 0
DDiv(a, b) ==
    IF DBad(a, b) THEN DRaise
    ELSE IF a.k = "nan" \/ b.k = "nan" THEN DNaN
    ELSE IF a.k = "inf" THEN (IF b.k = "inf" THEN DNaN ELSE [DInf EXCEPT !.m = DSign(a) * DSign(b)])
    ELSE IF b.k = "inf" THEN DZero
    ELSE DNorm((IF a.m < 0 THEN -(((-a.m) * 100000) \div Abs(b.m)) ELSE (a.m * 100000) \div Abs(b.m))
                 * DSign(b), a.e - b.e - 5)

DAdd(a, b) ==
    IF DBad(a, b) THEN DRaise
    ELSE IF a.k = "nan" \/ b.k = "nan" THEN DNaN
    ELSE IF a.k = "inf" THEN (IF b.k = "inf" /\ DSign(a) # DSign(b) THEN DNaN ELSE a)
    ELSE IF b.k = "inf" THEN b
    ELSE IF a.m = 0 THEN b
    ELSE IF b.m = 0 THEN a
    ELSE LET hi == IF a.e >= b.e THEN a ELSE b
             lo == IF a.e >= b.e THEN b ELSE a
             sh == hi.e - lo.e
         IN  IF sh > 5 THEN hi ELSE DNorm(hi.m * Pow10Int(sh) + lo.m, lo.e)

DSub(a, b) == DAdd(a, DNeg(b))
DLt(a, b) == LET c == DSub(b, a) IN c.k \in {"fin", "inf"} /\ c.m > 0
DLe(a, b) == LET c == DSub(b, a) IN c.k \in {"fin", "inf"} /\ c.m >= 0
DEq(a, b) == LET c == DSub(b, a) IN c.k = "fin" /\ c.m = 0
DMax(a, b) == IF DLt(a, b) THEN b ELSE a
DIsFinite(a) == a.k = "fin"

RECURSIVE ISqrtIter(_, _)
ISqrtIter(n, g) ==
    LET h == (g + n \div g) \div 2
    IN  IF h >= g THEN g ELSE ISqrtIter(n, h)
\* the integer part of the square root of n, 0 <= n < 10^9 (Newton's
\* iteration from above)
ISqrt(n) == IF n < 2 THEN n ELSE ISqrtIter(n, IF n < 31623 THEN n ELSE 31623)

\* a ** 0.5 for a >= 0
DSqrt(a) ==
    IF a.k # "fin" THEN a
    ELSE IF a.m = 0 THEN DZero
    ELSE IF a.e % 2 = 0 THEN DNorm(ISqrt(a.m * 10000), (a.e - 4) \div 2)
    ELSE DNorm(ISqrt(a.m * 100000), (a.e - 5) \div 2)

\* a ** 2 of a Python float: OverflowError where the square leaves the range
PySquare(a) ==
    LET r == DMul(a, a)
    IN  IF a.k = "fin" /\ r.k = "inf" THEN DRaise ELSE r

\* 10 ** (j / 1024) for 0 <= j < 1024: the product of the roots
\* 10^(1/2), 10^(1/4), ... that the binary digits of j select
RECURSIVE Pow10Frac(_, _, _)
Pow10Frac(j, bit, root) ==
    IF bit = 0 THEN D(1, 0)
    ELSE LET rest == Pow10Frac(j % bit, bit \div 2, DSqrt(root))
         IN  IF j >= bit THEN DMul(root, rest) ELSE rest

\* 10 ** x of a Python float x: OverflowError where the power leaves the
\* range, 0.0 where it underflows
PyPow10(x) ==
    IF x.k = "raise" THEN DRaise
    ELSE IF x.k = "nan" THEN DNaN
    ELSE IF x.k = "inf" THEN (IF x.m > 0 THEN DInf ELSE DZero)
    ELSE IF x.m = 0 \/ x.e < -8 THEN D(1, 0)
    ELSE IF x.e >= 0 THEN (IF x.m > 0 THEN DRaise ELSE DZero)
    ELSE LET j == (x.m * 1024) \div Pow10Int(-x.e)
             r == Pow10Frac(j % 1024, 512, DSqrt(D(10, 0)))
             v == DNorm(r.m, r.e + j \div 1024)
         IN  IF v.k = "inf" THEN DRaise ELSE v

\* a float of the extended numbers as a decimal float
RECURSIVE DFrac(_, _, _)
DFrac(n, d, e) ==
    IF n = 0 THEN DZero
    ELSE IF Abs(n) < 10000 * d /\ Abs(n) < 100000000 THEN DFrac(n * 10, d, e - 1)
    ELSE DNorm((IF n < 0 THEN -((-n) \div d) ELSE n \div d), e)
DOfX(x) ==
    CASE x.k = "fin"  -> DFrac(x.n, x.d, 0)
      [] x.k = "pinf" -> DInf
      [] x.k = "big"  -> D(1, 300)
      [] x.k = "ninf" -> DNeg(DInf)
      [] OTHER        -> DNaN

RECURSIVE DSum(_)
DSum(s) == IF s = << >> THEN DZero ELSE DAdd(Head(s), DSum(Tail(s)))

\* --------------------------------------------------------------- dosi.py
\* A gender selector as Python sees it: a str (s) or an int (i).
StrSel(s) == [ty |-> "str", s |-> s, i |-> 0]
IntSel(i) == [ty |-> "int", s |-> "", i |-> i]

\* str.lower on the selectors of the model
Lower(s) ==
    CASE s = "MALE"   -> "male"
      [] s = "Female" -> "female"
      [] OTHER        -> s

\* the int alias the other way round: 1 for female
NormGenderSwapped(gender_mode) ==
    IF gender_mode.ty = "int"
    THEN (IF gender_mode.i = 1 THEN "female" ELSE "male")
    ELSE Lower(gender_mode.s)

\* lines 28-31: the selector after the int alias and lower-casing
NormGender(gender_mode) ==
    IF gender_mode.ty = "int"
    THEN (IF gender_mode.i = 1 THEN "male" ELSE "female")
    ELSE Lower(gender_mode.s)

\* lines 25, 32: the two input checks
DosiRaises(data, gender_mode) ==
    \/ data.ndim # 2
    \/ data.ncols < 3
    \/ NormGender(gender_mode) \notin {"male", "female", "other"}

\* the first time difference taken for the time step
TimeStepFirstDiff(t) ==
    IF Len(t) >= 2 /\ XGt(XSub(t[2], t[1]), Zero) THEN XSub(t[2], t[1]) ELSE Fin(1, 20)

\* lines 39-46
TimeStep(t) ==
    LET dt     == [i \in 1..(Len(t) - 1) |-> XSub(t[i + 1], t[i])]
        dt_pos == SelectSeq(dt, LAMBDA x : XGt(x, Zero))
    IN  IF Len(t) >= 2 /\ dt_pos # << >> THEN Median(dt_pos) ELSE Fin(1, 20)

\* a frame counted as soon as either series is positive
KvEither(row) == XGt(row.f0, Zero) \/ XGt(row.spl, Zero)

\* line 49: voiced and valid SPL
Kv(row) == XGt(row.f0, Zero) /\ XGt(row.spl, Zero)

\* an integrand that does not read the frame's SPL
IntegrandFlat(q, g, row, time_step) ==
    [q |-> q, g |-> g, f0 |-> row.f0, spl |-> I(60), ts |-> time_step]

\* lines 76-118: one frame's integrand of Dd, De or Dr (q), under the
\* selector g.  Pth, Pl, A, T and eta are powers and roots of f0 and spl: the
\* integrand is kept as the formal term of its arguments.  Each is strictly
\* positive on a voiced-valid frame (f0 > 0, spl > 0, time_step > 0).
Integrand(q, g, row, time_step) ==
    [q |-> q, g |-> g, f0 |-> row.f0, spl |-> row.spl, ts |-> time_step]

\* np.sum of a partial array of formal terms (zero off the voiced-valid
\* frames), divided by `over`
FormalSum(q, g, rows, time_step, over) ==
    LET kvRows == SelectSeq(rows, Kv)
    IN  [terms |-> [i \in 1..Len(kvRows) |-> Integrand(q, g, kvRows[i], time_step)],
         over  |-> over]

FormalZero == [terms |-> << >>, over |-> I(1)]

\* lines 77-81 and 84-88: the constants of the two paths
MalePath   == [ref |-> D(120, 0), kA |-> D(16, -3), kT |-> D(158, -4),
               cT |-> D(215, -2), kEta |-> D(54, -1)]
FemalePath == [ref |-> D(190, 0), kA |-> D(10, -3), kT |-> D(1063, -5),
               cT |-> D(169, -2), kEta |-> D(14, -1)]
TinyD == D(1, -12)

\* lines 77-81 (male), 84-88 (female): Pth, Pl, A, T and eta of one frame
Path(p, f0, spl, time_step) ==
    LET Pth == DAdd(D(14, -2), DMul(D(6, -2), PySquare(DDiv(f0, p.ref))))
        Pl  == DAdd(Pth, PyPow10(DDiv(DSub(spl, D(7248, -2)), D(273, -1))))
        A   == DMul(DMul(time_step, p.kA),
                    DSqrt(DMax(DDiv(DSub(Pl, Pth), DMax(Pth, TinyD)), DZero)))
        T   == DDiv(p.kT, DAdd(D(1, 0), DMul(p.cT, DSqrt(DDiv(f0, p.ref)))))
        eta == DDiv(p.kEta, DMax(f0, TinyD))
    IN  [Pth |-> Pth, Pl |-> Pl, A |-> A, T |-> T, eta |-> eta]

\* the two paths added, not averaged
SumPath(m, f) ==
    [Pth |-> DAdd(m.Pth, f.Pth), Pl |-> DAdd(m.Pl, f.Pl), A |-> DAdd(m.A, f.A),
     T |-> DAdd(m.T, f.T), eta |-> DAdd(m.eta, f.eta)]

\* lines 104-108
HalfSum(a, b) == DMul(D(5, -1), DAdd(a, b))
MeanPath(m, f) ==
    [Pth |-> HalfSum(m.Pth, f.Pth), Pl |-> HalfSum(m.Pl, f.Pl), A |-> HalfSum(m.A, f.A),
     T |-> HalfSum(m.T, f.T), eta |-> HalfSum(m.eta, f.eta)]

\* lines 76-108: the quantities of one frame under the selector g
FramePath(g, f0, spl, time_step) ==
    CASE g = "male"   -> Path(MalePath, f0, spl, time_step)
      [] g = "female" -> Path(FemalePath, f0, spl, time_step)
      [] OTHER        -> MeanPath(Path(MalePath, f0, spl, time_step),
                                  Path(FemalePath, f0, spl, time_step))

\* line 50: omega = 2 * np.pi * F0
Omega(f0) == DMul(D(6283, -3), f0)

\* lines 116-118: the value of a formal integrand.  The squares and powers
\* of Python floats raise OverflowError, which ends the call whichever
\* integrand it is in (a raise in Pth, Pl or A is carried into De); the
\* square of omega, a numpy scalar, overflows to inf.
IntegrandValue(term) ==
    LET f0  == DOfX(term.f0)
        spl == DOfX(term.spl)
        ts  == DOfX(term.ts)
        w   == FramePath(term.g, f0, spl, ts)
        Dd  == DMul(f0, w.A)
        De  == DDiv(DMul(DMul(DMul(w.eta, PySquare(DDiv(w.A, DMax(w.T, TinyD)))),
                              DMul(Omega(f0), Omega(f0))), ts),
                    D(1000, 0))
        Dr  == DMul(DMul(PyPow10(DDiv(DSub(spl, D(120, 0)), D(10, 0))), D(1000, 0)), ts)
    IN  IF Dr.k = "raise" \/ De.k = "raise" THEN DRaise
        ELSE CASE term.q = "Dd" -> Dd
               [] term.q = "De" -> De
               [] OTHER         -> Dr

\* lines 126-128: the factor of each total
DoseFactor(q) ==
    CASE q = "Dd" -> D(4, 0)
      [] q = "De" -> D(5, -1)
      [] OTHER    -> DMul(D(4, 0), D(3142, -3))

\* lines 126-128, 133-135: the value of a formal total or rate
FormalValue(entry) ==
    IF entry.terms = << >> THEN DZero
    ELSE LET v == [i \in 1..Len(entry.terms) |-> IntegrandValue(entry.terms[i])]
         IN  DDiv(DMul(DoseFactor(entry.terms[1].q), DSum(v)), DOfX(entry.over))

\* lines 35-149: the 13 dose entries of a valid call, in the order of the
\* returned array
DosiVector(rows, g) ==
    LET n         == Len(rows)
        t         == [i \in 1..n |-> rows[i].t]
        time_step == TimeStep(t)
        part(f(_)) == [i \in 1..n |-> IF Kv(rows[i]) THEN f(rows[i]) ELSE Zero]
        Dt_partial  == part(LAMBDA r : time_step)
        VLI_partial == part(LAMBDA r : XMul(r.f0, time_step))
        SPL_partial == part(LAMBDA r : XMul(r.spl, time_step))
        F0_partial  == part(LAMBDA r : XMul(r.f0, time_step))
        Dt  == XSum(Dt_partial)
        VLI == XDiv(XSum(VLI_partial), I(1000))
        Dd  == FormalSum("Dd", g, rows, time_step, I(1))
        De  == FormalSum("De", g, rows, time_step, I(1))
        Dr  == FormalSum("Dr", g, rows, time_step, I(1))
        Dt_percentage ==
            XMul(I(100),
                 IF n >= 2 THEN XDivFloored(Dt, XSub(t[n], t[1]))
                 ELSE XDivFloored(Dt, Dt))
    IN  IF XGt(Dt, Zero)
        THEN << Dt, VLI, Dd, De, Dr, Dt_percentage,
                FormalSum("Dd", g, rows, time_step, Dt),
                FormalSum("De", g, rows, time_step, Dt),
                FormalSum("Dr", g, rows, time_step, Dt),
                XDiv(XSum(SPL_partial), Dt), XDiv(XSum(F0_partial), Dt),
                XVar(SPL_partial), XVar(F0_partial) >>
        ELSE << Dt, VLI, Dd, De, Dr, Dt_percentage,
                FormalZero, FormalZero, FormalZero, Zero, Zero, Zero, Zero >>

\* 10 ** y on Python floats raises OverflowError when the power is beyond
\* the largest double, 1.7977e308, that is for y above 308.25: at line 118
\* for an SPL above 120 + 10 * 308.25 dB (to a tenth of a dB)
SplOverflowAt == Fin(32025, 10)
\* lines 78, 118 (and 85, 93, 99): a power of ten of a voiced-valid frame
\* leaves the range of a float; the exponent of line 118 is the larger of
\* the two for every SPL above 45 dB.  10 ** inf is inf.
DosiOverflows(rows, g) ==
    \E i \in 1..Len(rows) :
       Kv(rows[i]) /\ XIsFinite(rows[i].spl) /\ XGt(rows[i].spl, SplOverflowAt)

\* DOSI(data, gender_mode): the dose vector, or the exception raised
DOSI(data, gender_mode) ==
    IF DosiRaises(data, gender_mode)
    THEN [raised |-> "ValueError", dose |-> << >>]
    ELSE IF DosiOverflows(data.rows, NormGender(gender_mode))
    THEN [raised |-> "OverflowError", dose |-> << >>]
    ELSE [raised |-> "none", dose |-> DosiVector(data.rows, NormGender(gender_mode))]

\* entry i of a dose vector is exactly 0
EntryIsZero(dose, i) ==
    IF i \in {3, 4, 5, 7, 8, 9} THEN dose[i].terms = << >> ELSE XIsZero(dose[i])

\* ------------------------------------------------- rounding and framing
\* int(a) for a finite a >= 0 (truncation)
Trunc(a) == a.n \div a.d

\* math.ceil / np.ceil for a finite a
Ceil(a) == -((-a.n) \div a.d)

\* Python's round() of a finite a: to the nearest integer, a half to the
\* even neighbour
PyRound(a) ==
    LET q == a.n \div a.d
        r == a.n % a.d
    IN  IF 2 * r < a.d THEN q
        ELSE IF 2 * r > a.d THEN q + 1
        ELSE IF q % 2 = 0 THEN q ELSE q + 1

\* 2 ** ceil(log2(n)) for n >= 1
RECURSIVE Pow2AtLeast(_, _)
Pow2AtLeast(n, p) == IF p >= n THEN p ELSE Pow2AtLeast(n, 2 * p)

\* np.arange(start, stop, step) for step > 0
Arange(start, stop, step) ==
    LET cnt == IF stop > start THEN (stop - start + step - 1) \div step ELSE 0
    IN  [i \in 1..cnt |-> start + (i - 1) * step]

\* A recording as a leveler sees it: Fs, the number of samples len, and en,
\* the mean energy 10*log10(MeanEnergy) of each complete block of N samples
\* (block b covers samples (b-1)*N .. b*N-1), N being the frame length of the
\* leveler the recording is given to.
Duration == Fin(1, 20)
Silence == I(-340)
SilenceThresholdDb == I(-200)

\* ------------------------------------------------------ stima_livello.py
\* stimaLivello(segment, Fs, C)[1]: the level of a frame whose mean energy is
\* e dB.  MeanEnergy <= 1e-20 (e <= -200 dB) gives -inf, whatever C.
stimaLivello(e, C) ==
    IF ~XGt(e, SilenceThresholdDb) THEN NInf ELSE XAdd(e, C)

\* src/stima_livello.py, line 25: the copy outside voxdose_core has no
\* silence branch
stimaLivelloTop(e, C) == XAdd(e, C)

\* log10 of a decimal float a > 0 in 1024ths: the exponent, and ten binary
\* digits of log10 of the mantissa found by repeated squaring
RECURSIVE Log10Bits(_, _)
Log10Bits(y, bit) ==
    IF bit = 0 THEN 0
    ELSE LET sq == DMul(y, y)
         IN  IF DLe(D(10, 0), sq) THEN bit + Log10Bits(DDiv(sq, D(10, 0)), bit \div 2)
             ELSE Log10Bits(sq, bit \div 2)
DLog10(a) == Fin((a.e + 3) * 1024 + Log10Bits([a EXCEPT !.e = -3], 512), 1024)

\* A frame as stimaLivello sees it after line 29: the magnitudes X of the
\* FFT bins below Fs/2 (ceil(len/2) of them for len samples), all 0 exactly
\* when every sample is 0.
\* line 25: X[X == 0] = 1e-17
FloorSpectrum(X) == [i \in 1..Len(X) |-> IF X[i].m = 0 THEN D(1, -17) ELSE X[i]]
\* lines 37, 42: X_db = 20 * log10(X)
LogSpectrum(X) == [i \in 1..Len(X) |-> XMul(I(20), DLog10(X[i]))]
\* lines 32-33: sum(X ** 2) / len(X) / ((1 / Fs) * len(x))
MeanEnergy(X, Fs, len) ==
    DDiv(DDiv(DSum([i \in 1..Len(X) |-> DMul(X[i], X[i])]), D(Len(X), 0)),
         DMul(DDiv(D(1, 0), D(Fs, 0)), D(len, 0)))
\* lines 21-43: stimaLivello(x, Fs, C) on a frame of len >= 1 samples
stimaLivelloFrame(frame, C) ==
    LET X  == FloorSpectrum(frame.X)
        ME == MeanEnergy(X, frame.Fs, frame.len)
    IN  [X_db |-> LogSpectrum(X),
         MeanEnergy |-> ME,
         dB |-> stimaLivello(XMul(I(10), DLog10(ME)), C)]
\* src/stima_livello.py, lines 16-27
stimaLivelloTopFrame(frame, C) ==
    LET X  == FloorSpectrum(frame.X)
        ME == MeanEnergy(X, frame.Fs, frame.len)
    IN  [X_db |-> LogSpectrum(X),
         MeanEnergy |-> ME,
         dB |-> stimaLivelloTop(XMul(I(10), DLog10(ME)), C)]

\* ------------------------------------------------------ spl_fast_c_th.py
\* line 22
FrameLenTH(Fs, duration) == Trunc(XMul(duration, I(Fs)))

\* line 23: the first sample of every frame levelled
WindowStartTH(len, N) == Arange(N, len - N, N)

\* a frame stamped with the time of its first sample
MidSampleStart(start, N) == start

\* line 27: the sample whose time stamps the frame starting at `start`
MidSample(start, N) == start + PyRound(Fin(N - 1, 2))

SPL_fast_C_TH(sig, C, duration) ==
    LET N            == FrameLenTH(sig.Fs, duration)
        window_start == WindowStartTH(sig.len, N)
        nf           == Len(window_start)
        window_time  == [i \in 1..nf |-> Fin(MidSample(window_start[i], N), sig.Fs)]
        dB           == [i \in 1..nf |-> stimaLivello(sig.en[window_start[i] \div N + 1], C)]
        dt           == XSub(window_time[2], window_time[1])
        dB_partial   == [i \in 1..nf |-> XMul(dB[i], dt)]
        none         == [raised |-> "none", SPL_mean |-> Zero, SPL_std |-> Zero,
                         dB |-> << >>, window_time |-> << >>]
    IN  IF N = 0 THEN [none EXCEPT !.raised = "ZeroDivisionError"]
        ELSE IF nf = 1 THEN [none EXCEPT !.raised = "IndexError"]
        ELSE [raised      |-> "none",
              SPL_mean    |-> IF nf > 0 THEN XDiv(XSum(dB_partial), window_time[nf])
                              ELSE Zero,
              SPL_std     |-> XVar(dB),
              dB          |-> dB,
              window_time |-> window_time]

\* ----------------------------------------------------------- spl_fast.py
\* lines 21-22
FrameLenCal(Fs) == Pow2AtLeast(Ceil(XMul(Duration, I(Fs))), 1)

\* frames that leave out the first and the last block of N samples
WindowStartCalSkipFirst(len, N) == Arange(N, len - N, N)

\* line 23
WindowStartCal(len, N) == Arange(0, len - N + 1, N)

\* SPL_fast with its constant C = 50 (line 17) as a parameter
SPL_fast_at(sig, C) ==
    LET N            == FrameLenCal(sig.Fs)
        window_start == WindowStartCal(sig.len, N)
        nf           == Len(window_start)
        window_time  == [i \in 1..nf |-> Fin(MidSample(window_start[i], N), sig.Fs)]
        dBA          == [i \in 1..nf |-> stimaLivello(sig.en[window_start[i] \div N + 1], C)]
        delta_t      == IF nf > 1 THEN XSub(window_time[2], window_time[1]) ELSE Duration
        dBA_partial  == [i \in 1..nf |-> XMul(dBA[i], delta_t)]
    IN  IF nf = 0
        THEN [raised |-> "IndexError", SPL_mean |-> Zero, SPL_std |-> Zero, dBA |-> << >>]
        ELSE [raised   |-> "none",
              SPL_mean |-> XDiv(XSum(dBA_partial), window_time[nf]),
              SPL_std  |-> XVar(dBA),
              dBA      |-> dBA]

CalDefault == I(50)

SPL_fast(sig) == SPL_fast_at(sig, CalDefault)

\* lines 20-30: the frames SPL_fast cuts the recording into, and their
\* levels
SPL_fast_frames(sig) ==
    LET N            == FrameLenCal(sig.Fs)
        window_start == WindowStartCal(sig.len, N)
        nf           == Len(window_start)
    IN  [N            |-> N,
         window_start |-> window_start,
         window_time  |-> [i \in 1..nf |-> Fin(MidSample(window_start[i], N), sig.Fs)],
         dBA          |-> [i \in 1..nf |->
                              stimaLivello(sig.en[window_start[i] \div N + 1], CalDefault)]]

\* -------------------------------------------------------------- sp_cpps.py
\* lines 120-136: the number of frames of the CPPS track (L = H)
CppsFrameCount(len, Fs) ==
    LET L == PyRound(XMul(Duration, I(Fs)))
    IN  IF len = 0 \/ len < L THEN 0 ELSE (len - L) \div L + 1

\* lines 125-126: the frame length L (and hop H = L) of the CPPS track
CppsFrameLen(Fs) == PyRound(XMul(Duration, I(Fs)))
\* lines 127-131: the first sample of every CPPS frame (pos = 0, H, 2H, ...
\* while pos + L <= N)
CppsWindowStart(len, Fs) ==
    [i \in 1..CppsFrameCount(len, Fs) |-> (i - 1) * CppsFrameLen(Fs)]

\* ------------------------------------------------ analyze_wav_spl_f0.py
\* np.convolve(a, v, mode="same") of two non-empty sequences: numpy swaps
\* them so that a is the longer, and returns max(len(a), len(v)) values,
\* value i (from 0) being the sum of a[i - n2 \div 2 + k] * v[n2 - 1 - k]
ConvolveSame(a0, v0) ==
    LET a  == IF Len(v0) > Len(a0) THEN v0 ELSE a0
        v  == IF Len(v0) > Len(a0) THEN a0 ELSE v0
        n1 == Len(a)
        n2 == Len(v)
        at(j) == IF j >= 0 /\ j < n1 THEN a[j + 1] ELSE Zero
    IN  [i \in 1..n1 |->
            XSum([k \in 1..n2 |-> XMul(at((i - 1) - (n2 \div 2) + (k - 1)), v[n2 - k + 1])])]

Ones(n) == [i \in 1..n |-> I(1)]

\* lines 41-50; np.convolve raises ValueError on an empty series
MovingMeanIgnoreZeros(series, win_len_frames) ==
    LET valid == [i \in 1..Len(series) |->
                     XGt(series[i], Zero) /\ XIsFinite(series[i])]
        num == ConvolveSame([i \in 1..Len(series) |-> IF valid[i] THEN series[i] ELSE Zero],
                            Ones(win_len_frames))
        den == ConvolveSame([i \in 1..Len(series) |-> IF valid[i] THEN I(1) ELSE Zero],
                            Ones(win_len_frames))
    IN  IF win_len_frames < 1
        THEN [raised |-> "none", out |-> ZerosLike(series)]
        ELSE IF series = << >>
        THEN [raised |-> "ValueError", out |-> << >>]
        ELSE [raised |-> "none",
              out |-> [i \in 1..Len(num) |->
                          IF XLt(den[i], I(1)) THEN Zero ELSE XDiv(num[i], den[i])]]

\* lines 156-157: int(round(win_s / duration)), then max(1, .)
WinFrames(win_s) == Max2(1, PyRound(XDiv(win_s, Duration)))

\* A distance of 10^exp metres; lines 143-144 floor both distances at 1e-9
FloorExp == -9
DistExp(e) == Max2(e, FloorExp)
\* line 144: 20*log10(max(distance_cal,1e-9)/target_distance_m), in dB
DistanceCorrection(distance_cal, target_distance_m) ==
    I(20 * (DistExp(distance_cal) - DistExp(target_distance_m)))

NoiseFloor == I(50)

\* line 140
ClipF0(F0, freq_low, freq_high) ==
    [i \in 1..Len(F0) |->
        IF XLt(F0[i], I(freq_low)) \/ XGt(F0[i], I(freq_high)) THEN Zero ELSE F0[i]]

\* line 144
Correct(dB, corr) == [i \in 1..Len(dB) |-> XSub(dB[i], corr)]

\* line 147
Gate(dB) == [i \in 1..Len(dB) |-> IF XLt(dB[i], NoiseFloor) THEN Zero ELSE dB[i]]

\* a mask that looks at F0 alone
MaskF0Only(F0, dB) == [i \in 1..Len(dB) |-> XEq(F0[i], Zero)]

\* line 150
Mask(F0, dB) == [i \in 1..Len(dB) |-> XEq(F0[i], Zero) \/ XEq(dB[i], Zero)]

\* lines 151-153
Masked(s, mask) == [i \in 1..Len(s) |-> IF mask[i] THEN Zero ELSE s[i]]

\* the alignment with the noise floor applied to the raw level, before the
\* distance correction
AlignGateFirst(dB0, windowTime0, F00, CPPS0, freq_low, freq_high, corr) ==
    LET limit == Min2(Min2(Len(dB0), Len(F00)), Min2(Len(windowTime0), Len(CPPS0)))
        F0c   == ClipF0(Take(F00, limit), freq_low, freq_high)
        dBr   == Gate(Take(dB0, limit))
        dBg   == [i \in 1..limit |-> IF XEq(dBr[i], Zero) THEN Zero ELSE XSub(dBr[i], corr)]
        mask  == Mask(F0c, dBg)
    IN  [limit      |-> limit,
         lens       |-> <<Len(dB0), Len(F00), Len(windowTime0), Len(CPPS0)>>,
         windowTime |-> Take(windowTime0, limit),
         F0in       |-> Take(F00, limit),
         dBcorr     |-> Correct(Take(dB0, limit), corr),
         CPPSin     |-> Take(CPPS0, limit),
         F0         |-> Masked(F0c, mask),
         dB         |-> Masked(dBg, mask),
         CPPS       |-> Masked(Take(CPPS0, limit), mask)]

\* lines 136-153: the aligned timeline, with the two intermediate arrays
\* the masks are computed from
Align(dB0, windowTime0, F00, CPPS0, freq_low, freq_high, corr) ==
    LET limit == Min2(Min2(Len(dB0), Len(F00)), Min2(Len(windowTime0), Len(CPPS0)))
        F0c   == ClipF0(Take(F00, limit), freq_low, freq_high)
        dBc   == Correct(Take(dB0, limit), corr)
        dBg   == Gate(dBc)
        mask  == Mask(F0c, dBg)
    IN  [limit      |-> limit,
         lens       |-> <<Len(dB0), Len(F00), Len(windowTime0), Len(CPPS0)>>,
         windowTime |-> Take(windowTime0, limit),
         F0in       |-> Take(F00, limit),
         dBcorr     |-> dBc,
         CPPSin     |-> Take(CPPS0, limit),
         F0         |-> Masked(F0c, mask),
         dB         |-> Masked(dBg, mask),
         CPPS       |-> Masked(Take(CPPS0, limit), mask)]

\* the columns stacked as [time, F0, SPL]
ColumnStackSwapped(t0, dB0, F00) ==
    [ndim |-> 2, ncols |-> 3,
     rows |-> [i \in 1..Len(t0) |-> [t |-> t0[i], spl |-> F00[i], f0 |-> dB0[i]]]]

\* line 180: np.column_stack((windowTime, dB, F0)) as DOSI's data
ColumnStack(windowTime, dB, F0) ==
    [ndim |-> 2, ncols |-> 3,
     rows |-> [i \in 1..Len(windowTime) |-> [t |-> windowTime[i], spl |-> dB[i], f0 |-> F0[i]]]]

\* ------------------------------------------------------------ the inputs
\* A recording is given by a pattern of block energies: every block loud,
\* every block quiet (below the noise floor once calibrated with C = 50),
\* every block digitally silent, or two of these in alternation.
Loud == I(10)
Quiet == I(-10)
EnergyPatterns == {"loud", "quiet", "silent", "loud-quiet", "silent-loud"}
BlockEnergy(p, i) ==
    CASE p = "loud"        -> Loud
      [] p = "quiet"       -> Quiet
      [] p = "silent"      -> Silence
      [] p = "loud-quiet"  -> (IF i % 2 = 1 THEN Loud ELSE Quiet)
      [] OTHER             -> (IF i % 2 = 1 THEN Silence ELSE Loud)
Recording(fs, n, N, p) ==
    [Fs |-> fs, len |-> n, en |-> [i \in 1..(n \div N) |-> BlockEnergy(p, i)]]

\* the monitored recordings
FsVals == {20, 30}
MonSignals ==
    {Recording(fs, n, FrameLenTH(fs, Duration), p) :
        fs \in FsVals, n \in 0..MaxSamples, p \in EnergyPatterns}

\* the calibration recordings and the level read off the sound level meter
CalFsVals == {80}
CalPatterns == {"loud", "silent-loud"}
CalSignals ==
    {Recording(fs, n, FrameLenCal(fs), p) :
        fs \in CalFsVals, n \in 0..MaxCalSamples, p \in CalPatterns}
NoSignal == [Fs |-> 1, len |-> 0, en |-> << >>]
\* (calibration_file, calibration_level_dBA): a file is None, a path that
\* cannot be read, or a recording; a level is None or the 94 dBA read off
\* the meter
NoFile == [given |-> FALSE, readable |-> FALSE, sig |-> NoSignal]
BadFile == [given |-> TRUE, readable |-> FALSE, sig |-> NoSignal]
NoLevel == [given |-> FALSE, dBA |-> 0]
\* the argument itself: a path, or None
PathOf(file) == [given |-> file.given, readable |-> file.readable]
CalArgs ==
    {<<NoFile, NoLevel>>, <<BadFile, NoLevel>>, <<BadFile, [given |-> TRUE, dBA |-> 94]>>}
    \cup {<<[given |-> TRUE, readable |-> TRUE, sig |-> c], [given |-> TRUE, dBA |-> 94]>> :
            c \in CalSignals}

\* what the pitch tracker (Praat) may hand back: n values, all voiced in
\* range, all unvoiced, voiced and unvoiced in alternation, or voiced below
\* and above the bounds in alternation
F0Patterns == {"voiced", "unvoiced", "voiced-unvoiced", "unvoiced-voiced", "low-high"}
F0Value(p, i) ==
    CASE p = "voiced"          -> I(100)
      [] p = "unvoiced"        -> Zero
      [] p = "voiced-unvoiced" -> (IF i % 2 = 1 THEN I(100) ELSE Zero)
      [] p = "unvoiced-voiced" -> (IF i % 2 = 1 THEN Zero ELSE I(100))
      [] OTHER                 -> (IF i % 2 = 1 THEN I(60) ELSE I(200))
F0Tracks(n) == {[i \in 1..n |-> F0Value(p, i)] : p \in F0Patterns}
F0Lengths(nf) == {0} \cup {n \in {nf - 1, nf, nf + 1} : n >= 0}
FreqBounds == {<<75, 150>>}
\* what the CPPS extractor may hand back for K frames
CppsTracks(K) ==
    {[i \in 1..K |-> I(5)], [i \in 1..K |-> IF i % 2 = 1 THEN I(5) ELSE Zero]}
\* (distance_cal, target_distance_m) as powers of ten, in metres
DistPairs == {<<0, 0>>, <<0, -1>>, <<-1, 0>>}
\* (f0_mean_win_s, cpps_mean_win_s)
WinPairs ==
    {<<Duration, Duration>>, <<Fin(MaxWin, 20), Fin(MaxWin, 20)>>, <<Zero, Fin(MaxWin, 20)>>}
GenderModes == {StrSel("male"), StrSel("other"), StrSel("unknown")}

\* -------------------------------------------------------------- the state
VARIABLES
    pc,             \* the stage analyze_wav_spl_f0 is about to run
    args,           \* the arguments read so far (defaults until read)
    C,              \* calibration constant
    is_calibrated,
    cal,            \* what the calibration stage did
    x,              \* the monitored recording: Fs and len(x)
    dB, windowTime, F0, CPPS,   \* the per-frame arrays
    pitch, cpps,    \* how the tracker and the extractor ended
    pre,            \* the arrays as they stood between lines 137 and 147
    F0_mean_t, CPPS_mean_t,
    files,          \* result files written
    A, dose,        \* the returned pair
    app,            \* the fields of the VoxDoseApp window
    trace,          \* what the user and the window did so far
    raised,         \* the exception that left analyze_wav_spl_f0, and its origin
    call            \* a direct call of a core function and its result

vars == <<pc, args, C, is_calibrated, cal, x, dB, windowTime, F0, CPPS, pitch, cpps,
          pre, F0_mean_t, CPPS_mean_t, files, A, dose, raised, call, app, trace>>

\* lines 53-64: the defaults of analyze_wav_spl_f0.  The two distances are
\* kept as exponents of ten; the defaults (0.30 m, 0.30 m) are two equal
\* distances.  The windows are in seconds.
DefaultArgs ==
    [gender_mode           |-> StrSel("male"),
     calibration_file      |-> PathOf(NoFile),
     calibration_level_dBA |-> [given |-> FALSE, dBA |-> 0],
     freq_low              |-> 75,
     freq_high             |-> 150,
     distance_cal          |-> 0,
     target_distance_m     |-> 0,
     f0_mean_win_s         |-> I(5),
     cpps_mean_win_s       |-> I(5)]

NoPre == [limit |-> 0, lens |-> << >>, F0in |-> << >>, dBcorr |-> << >>, CPPSin |-> << >>]
NoRaise == [at |-> "none", type |-> "none"]
Raise(at, type) == IF type = "none" THEN NoRaise ELSE [at |-> at, type |-> type]
NoCal == [tried |-> FALSE, failed |-> "none", SPL_mean_cal |-> Zero]
NoCall == [fn |-> "none"]

\* ---------------------------------------------- voxdose_app.py: values
\* an attribute that may be None: None, or the value it holds
NoneVal == << >>
Some(v) == <<v>>
\* the files the dialogs offer, the folders, the values of the spin boxes
\* (mic distance in metres, calibration level in dBA) and the buttons of the
\* Yes | No message boxes (Escape is the No button)
MonitoringPaths == {"a.wav", "b.mp3"}
CalibrationPaths == {"cal1.wav", "cal2.wav"}
SaveFolders == {"out"}
MicDistances == {Fin(3, 10), I(1)}
CalLevels == {94}
Answers == {"Yes", "No"}
NotAsked == "not asked"
\* Most clicks on the window's buttons in one session.
MaxClicks == 5

\* lines 102-117: VoxDoseApp.__init__
NewApp ==
    [wav_file |-> NoneVal, cal_file |-> NoneVal, save_folder |-> NoneVal,
     last_excel_file |-> NoneVal, time |-> NoneVal, dB |-> NoneVal, F0 |-> NoneVal,
     label_file |-> "No monitoring file selected.",
     label_cal |-> "No calibration file selected.",
     label_save |-> "No save folder selected (defaults to input file folder).",
     label_status |-> ""]
NoKwargs ==
    [fname |-> NoneVal, calibration_file |-> NoneVal, calibration_level_dBA |-> NoneVal,
     distance_cal |-> Zero, target_distance_m |-> Zero]
NoAnswers == [resp |-> NotAsked, ans |-> NotAsked, ans_cal |-> NotAsked]
NewTrace ==
    [clock |-> 0, wavAt |-> 0, calAt |-> 0, last |-> [op |-> "none", accepted |-> FALSE],
     answers |-> NoAnswers, invoked |-> FALSE, kwargs |-> NoKwargs]

Init ==
    /\ pc = "calibrate"
    /\ args = DefaultArgs
    /\ C = CalDefault
    /\ is_calibrated = FALSE
    /\ cal = NoCal
    /\ x = [Fs |-> 1, len |-> 0]
    /\ dB = << >> /\ windowTime = << >> /\ F0 = << >> /\ CPPS = << >>
    /\ pitch = "none" /\ cpps = "none"
    /\ pre = NoPre
    /\ F0_mean_t = << >> /\ CPPS_mean_t = << >>
    /\ files = {}
    /\ A = ColumnStack(<< >>, << >>, << >>)
    /\ dose = << >>
    /\ raised = NoRaise
    /\ call = NoCall
    /\ app = NewApp
    /\ trace = NewTrace

\* a calibration whose flag is set before the recording is levelled
CalibrationOutcomeFlagFirst(calibration_file, calibration_level_dBA) ==
    LET lev == SPL_fast(calibration_file.sig)
        given == calibration_file.given /\ calibration_level_dBA.given
        ok == given /\ calibration_file.readable /\ lev.raised = "none"
    IN  [C |-> IF ok THEN XSub(XAdd(CalDefault, I(calibration_level_dBA.dBA)), lev.SPL_mean)
               ELSE CalDefault,
         is_calibrated |-> given,
         cal |-> [tried |-> given,
                  failed |-> IF ~given \/ ok THEN "none"
                             ELSE IF ~calibration_file.readable THEN "unreadable"
                             ELSE lev.raised,
                  SPL_mean_cal |-> IF ok THEN lev.SPL_mean ELSE Zero]]

\* lines 72-88.  Whatever the try block raises is caught.
CalibrationOutcome(calibration_file, calibration_level_dBA) ==
    LET lev == SPL_fast(calibration_file.sig)
        uncal(tried, why) ==
            [C |-> CalDefault, is_calibrated |-> FALSE,
             cal |-> [tried |-> tried, failed |-> why, SPL_mean_cal |-> Zero]]
    IN  IF ~(calibration_file.given /\ calibration_level_dBA.given) THEN uncal(FALSE, "none")
        ELSE IF ~calibration_file.readable THEN uncal(TRUE, "unreadable")
        ELSE IF lev.raised # "none" THEN uncal(TRUE, lev.raised)
        ELSE [C |-> XSub(XAdd(CalDefault, I(calibration_level_dBA.dBA)), lev.SPL_mean),
              is_calibrated |-> TRUE,
              cal |-> [tried |-> TRUE, failed |-> "none", SPL_mean_cal |-> lev.SPL_mean]]

Calibrate ==
    /\ pc = "calibrate"
    /\ \E fl \in CalArgs :
          LET o == CalibrationOutcome(fl[1], fl[2])
          IN  /\ args' = [args EXCEPT !.calibration_file = PathOf(fl[1]),
                                      !.calibration_level_dBA = fl[2]]
              /\ C' = o.C
              /\ is_calibrated' = o.is_calibrated
              /\ cal' = o.cal
    /\ pc' = "level"
    /\ UNCHANGED <<x, dB, windowTime, F0, CPPS, pitch, cpps, pre, F0_mean_t, CPPS_mean_t,
                   files, A, dose, raised, call, app, trace>>

\* lines 90-96
Level ==
    /\ pc = "level"
    /\ \E sig \in MonSignals :
          LET r == SPL_fast_C_TH(sig, C, Duration)
          IN  /\ x' = [Fs |-> sig.Fs, len |-> sig.len]
              /\ dB' = r.dB
              /\ windowTime' = r.window_time
              /\ raised' = Raise("SPL_fast_C_TH", r.raised)
              /\ pc' = IF r.raised = "none" THEN "pitch" ELSE "raised"
    /\ UNCHANGED <<args, C, is_calibrated, cal, F0, CPPS, pitch, cpps, pre, F0_mean_t,
                   CPPS_mean_t, files, A, dose, call, app, trace>>

\* lines 98-114: the tracker raises, or hands back n values
PitchResult(outcome, out, like) ==
    IF outcome = "raised" \/ out = << >> THEN ZerosLike(like) ELSE out

\* a tracker called again after it has raised
PitchTrackRetry ==
    /\ pc = "pitch"
    /\ \E b \in FreqBounds :
          args' = [args EXCEPT !.freq_low = b[1], !.freq_high = b[2]]
    /\ \/ /\ pitch' = "raised"
          /\ F0' = PitchResult("raised", << >>, dB)
          /\ pc' = IF pitch = "raised" THEN "cpps" ELSE "pitch"
       \/ \E n \in F0Lengths(Len(dB)) : \E out \in F0Tracks(n) :
             /\ pitch' = IF n = 0 THEN "empty" ELSE "ok"
             /\ F0' = PitchResult("ok", out, dB)
             /\ pc' = "cpps"
    /\ UNCHANGED <<C, is_calibrated, cal, x, dB, windowTime, CPPS, cpps, pre, F0_mean_t,
                   CPPS_mean_t, files, A, dose, raised, call, app, trace>>

PitchTrack ==
    /\ pc = "pitch"
    /\ \E b \in FreqBounds :
          args' = [args EXCEPT !.freq_low = b[1], !.freq_high = b[2]]
    /\ \/ /\ pitch' = "raised"
          /\ F0' = PitchResult("raised", << >>, dB)
       \/ \E n \in F0Lengths(Len(dB)) : \E out \in F0Tracks(n) :
             /\ pitch' = IF n = 0 THEN "empty" ELSE "ok"
             /\ F0' = PitchResult("ok", out, dB)
    /\ pc' = "cpps"
    /\ UNCHANGED <<C, is_calibrated, cal, x, dB, windowTime, CPPS, cpps, pre, F0_mean_t,
                   CPPS_mean_t, files, A, dose, raised, call, app, trace>>

\* a fallback that leaves the CPPS series empty
CppsResultEmpty(outcome, track, like) == track

\* lines 116-133: _HAS_CPPS false, or spCPPS raises, or it hands back a track
CppsResult(outcome, track, like) ==
    IF outcome = "ok" THEN track ELSE ZerosLike(like)

Cpps ==
    /\ pc = "cpps"
    /\ \/ \E o \in {"unavailable", "raised"} :
             /\ cpps' = o
             /\ CPPS' = CppsResult(o, << >>, dB)
       \/ \E track \in CppsTracks(CppsFrameCount(x.len, x.Fs)) :
             /\ cpps' = "ok"
             /\ CPPS' = CppsResult("ok", track, dB)
    /\ pc' = "align"
    /\ UNCHANGED <<args, C, is_calibrated, cal, x, dB, windowTime, F0, pitch, pre,
                   F0_mean_t, CPPS_mean_t, files, A, dose, raised, call, app, trace>>

\* lines 135-153
AlignStep ==
    /\ pc = "align"
    /\ \E d \in DistPairs :
          LET a == Align(dB, windowTime, F0, CPPS, args.freq_low, args.freq_high,
                         DistanceCorrection(d[1], d[2]))
          IN  /\ args' = [args EXCEPT !.distance_cal = d[1], !.target_distance_m = d[2]]
              /\ dB' = a.dB
              /\ windowTime' = a.windowTime
              /\ F0' = a.F0
              /\ CPPS' = a.CPPS
              /\ pre' = [limit |-> a.limit, lens |-> a.lens, F0in |-> a.F0in,
                         dBcorr |-> a.dBcorr, CPPSin |-> a.CPPSin]
    /\ pc' = "average"
    /\ UNCHANGED <<C, is_calibrated, cal, x, pitch, cpps, F0_mean_t, CPPS_mean_t, files,
                   A, dose, raised, call, app, trace>>

\* lines 155-159
Average ==
    /\ pc = "average"
    /\ \E w \in WinPairs :
          LET mf == MovingMeanIgnoreZeros(F0, WinFrames(w[1]))
              mc == MovingMeanIgnoreZeros(CPPS, WinFrames(w[2]))
              ok == mf.raised = "none" /\ mc.raised = "none"
          IN  /\ args' = [args EXCEPT !.f0_mean_win_s = w[1], !.cpps_mean_win_s = w[2]]
              /\ F0_mean_t' = mf.out
              /\ CPPS_mean_t' = IF mf.raised = "none" THEN mc.out ELSE << >>
              /\ raised' = Raise("np.convolve",
                                 IF mf.raised # "none" THEN mf.raised ELSE mc.raised)
              /\ pc' = IF ok THEN "save" ELSE "raised"
    /\ pre' = NoPre
    /\ UNCHANGED <<C, is_calibrated, cal, x, dB, windowTime, F0, CPPS, pitch, cpps, files,
                   A, dose, call, app, trace>>

\* lines 169-176: pd.DataFrame of six columns raises ValueError unless all
\* have one length
FrameColumnsAgree(cols) == \A i \in 1..Len(cols) : Len(cols[i]) = Len(cols[1])

\* lines 161-177
SavePerFrame ==
    /\ pc = "save"
    /\ IF FrameColumnsAgree(<<windowTime, dB, F0, F0_mean_t, CPPS, CPPS_mean_t>>)
       THEN /\ files' = files \cup {"frames.xlsx"}
            /\ pc' = "dose"
            /\ raised' = raised
       ELSE /\ files' = files
            /\ pc' = "raised"
            /\ raised' = Raise("pd.DataFrame", "ValueError")
    /\ UNCHANGED <<args, C, is_calibrated, cal, x, dB, windowTime, F0, CPPS, pitch, cpps,
                   pre, F0_mean_t, CPPS_mean_t, A, dose, call, app, trace>>

\* lines 179-181
Dose ==
    /\ pc = "dose"
    /\ \E g \in GenderModes :
          LET r == DOSI(ColumnStack(windowTime, dB, F0), g)
          IN  /\ args' = [args EXCEPT !.gender_mode = g]
              /\ A' = ColumnStack(windowTime, dB, F0)
              /\ dose' = r.dose
              /\ raised' = Raise("DOSI", r.raised)
              /\ pc' = IF r.raised = "none" THEN "saveDose" ELSE "raised"
    /\ UNCHANGED <<C, is_calibrated, cal, x, dB, windowTime, F0, CPPS, pitch, cpps, pre,
                   F0_mean_t, CPPS_mean_t, files, call, app, trace>>

\* lines 182-187
SaveDose ==
    /\ pc = "saveDose"
    /\ files' = files \cup {"doses.xlsx"}
    /\ pc' = "summary"
    /\ UNCHANGED <<args, C, is_calibrated, cal, x, dB, windowTime, F0, CPPS, pitch, cpps,
                   pre, F0_mean_t, CPPS_mean_t, A, dose, raised, call, app, trace>>

\* lines 189-211: the summary figure is written, or its failure is caught;
\* then the pair (A, dose) is returned
Summary ==
    /\ pc = "summary"
    /\ \/ files' = files \cup {"summary.png"}
       \/ files' = files
    /\ pc' = "done"
    /\ UNCHANGED <<args, C, is_calibrated, cal, x, dB, windowTime, F0, CPPS, pitch, cpps,
                   pre, F0_mean_t, CPPS_mean_t, A, dose, raised, call, app, trace>>

Next ==
    \/ Calibrate
    \/ Level
    \/ PitchTrack
    \/ Cpps
    \/ AlignStep
    \/ Average
    \/ SavePerFrame
    \/ Dose
    \/ SaveDose
    \/ Summary

Spec == Init /\ [][Next]_vars

\* ------------------------------------------- direct calls of the core
\* Time stamps handed to DOSI: a uniform 0.05 s grid, a grid with one gap
\* of 0.10 s, and a decreasing one (no positive difference)
TimeGrids == {"uniform", "gap", "down"}
GridTime(kind, n, i) ==
    CASE kind = "uniform" -> Fin(i - 1, 20)
      [] kind = "gap"     -> Fin(IF i >= 3 THEN i ELSE i - 1, 20)
      [] OTHER            -> Fin(n - i, 20)
SplVals == {Zero, I(60), I(70)}
F0DoseVals == {Zero, I(100)}
DoseRows(n) ==
    {[i \in 1..n |-> [t |-> GridTime(k, n, i), spl |-> s[i], f0 |-> f[i]]] :
        k \in TimeGrids, s \in [1..n -> SplVals], f \in [1..n -> F0DoseVals]}
\* data arrays: (n, 3) and (n, 4) arrays, and arrays of another rank or of
\* fewer than 3 columns (their content never read)
DoseArrays ==
    UNION {{[ndim |-> 2, ncols |-> 3, rows |-> r] : r \in DoseRows(n)} : n \in 0..MaxRows}
    \cup {[ndim |-> 2, ncols |-> 4, rows |-> r] : r \in DoseRows(1)}
    \cup {[ndim |-> d, ncols |-> c, rows |-> << >>] : d \in {1, 3}, c \in {3}}
    \cup {[ndim |-> 2, ncols |-> c, rows |-> << >>] : c \in 0..2}
Selectors ==
    {StrSel("male"), StrSel("female"), StrSel("other"), StrSel("MALE"), StrSel("unknown"),
     IntSel(0), IntSel(1), IntSel(2)}

CallDOSI ==
    /\ call = NoCall
    /\ \E data \in DoseArrays, g \in Selectors :
          call' = [fn |-> "DOSI", data |-> data, gender_mode |-> g, res |-> DOSI(data, g)]
    /\ UNCHANGED <<pc, args, C, is_calibrated, cal, x, dB, windowTime, F0, CPPS, pitch,
                   cpps, pre, F0_mean_t, CPPS_mean_t, files, A, dose, raised, app, trace>>

\* recordings and frame durations handed to the monitoring leveler
MaxLevelSamples == 12
LevelFsVals == {20, 30, 40, 60}
LevelDurations == {Duration, Fin(1, 10)}

CallLevelTH ==
    /\ call = NoCall
    /\ \E fs \in LevelFsVals, n \in 0..MaxLevelSamples, d \in LevelDurations,
          p \in {"loud", "silent-loud"} :
          LET sig == Recording(fs, n, FrameLenTH(fs, d), p)
          IN  call' = [fn |-> "SPL_fast_C_TH", sig |-> sig, C |-> CalDefault,
                       duration |-> d, res |-> SPL_fast_C_TH(sig, CalDefault, d)]
    /\ UNCHANGED <<pc, args, C, is_calibrated, cal, x, dB, windowTime, F0, CPPS, pitch,
                   cpps, pre, F0_mean_t, CPPS_mean_t, files, A, dose, raised, app, trace>>

\* the calibration of lines 72-88 on its own, and the calibration recording
\* levelled again with the constant it produced
CalLevelVals == {60, 94, 120}
CallCalibrate ==
    /\ call = NoCall
    /\ \E fs \in {80, 160}, n \in 0..MaxLevelSamples, p \in EnergyPatterns, R \in CalLevelVals :
          LET sig == Recording(fs, n, FrameLenCal(fs), p)
              out == CalibrationOutcome([given |-> TRUE, readable |-> TRUE, sig |-> sig],
                                        [given |-> TRUE, dBA |-> R])
          IN  call' = [fn |-> "calibrate", sig |-> sig, level |-> R, out |-> out,
                       again |-> SPL_fast_at(sig, out.C)]
    /\ UNCHANGED <<pc, args, C, is_calibrated, cal, x, dB, windowTime, F0, CPPS, pitch,
                   cpps, pre, F0_mean_t, CPPS_mean_t, files, A, dose, raised, app, trace>>

\* one timeline handed to DOSI under each of the three profiles; the SPL
\* values include one whose tenth power of ten is beyond a double
MaxProfileRows == 2
ProfileSplVals == {Zero, I(60), I(80), I(3300)}
ProfileF0Vals == {Zero, I(100), I(220)}
ProfileArrays ==
    UNION {{[ndim |-> 2, ncols |-> 3,
             rows |-> [i \in 1..n |-> [t |-> GridTime("uniform", n, i),
                                       spl |-> s[i], f0 |-> f[i]]]] :
               s \in [1..n -> ProfileSplVals], f \in [1..n -> ProfileF0Vals]} :
           n \in 0..MaxProfileRows}

CallDOSIProfiles ==
    /\ call = NoCall
    /\ \E data \in ProfileArrays :
          call' = [fn |-> "DOSI profiles", data |-> data,
                   male   |-> DOSI(data, StrSel("male")),
                   female |-> DOSI(data, StrSel("female")),
                   other  |-> DOSI(data, StrSel("other"))]
    /\ UNCHANGED <<pc, args, C, is_calibrated, cal, x, dB, windowTime, F0, CPPS, pitch,
                   cpps, pre, F0_mean_t, CPPS_mean_t, files, A, dose, raised, app, trace>>

\* two timelines handed to DOSI under one profile, the second with the SPL
\* of every voiced frame (F0 > 0) raised
MaxPairRows == 2
PairSplVals == {I(-20), Zero, I(60)}
SplRises == {I(10), I(30)}
PairArrays ==
    UNION {{[ndim |-> 2, ncols |-> 3,
             rows |-> [i \in 1..n |-> [t |-> GridTime("uniform", n, i),
                                       spl |-> s[i], f0 |-> f[i]]]] :
               s \in [1..n -> PairSplVals], f \in [1..n -> F0DoseVals]} :
           n \in 1..MaxPairRows}
RaiseVoiced(data, rise) ==
    [data EXCEPT !.rows = [i \in 1..Len(data.rows) |->
        IF XGt(data.rows[i].f0, Zero)
        THEN [data.rows[i] EXCEPT !.spl = XAdd(data.rows[i].spl, rise)]
        ELSE data.rows[i]]]

CallDOSIPair ==
    /\ call = NoCall
    /\ \E data \in PairArrays, rise \in SplRises, g \in {"male", "female", "other"} :
          call' = [fn |-> "DOSI pair", data |-> data, louder |-> RaiseVoiced(data, rise),
                   gender_mode |-> StrSel(g),
                   first  |-> DOSI(data, StrSel(g)),
                   second |-> DOSI(RaiseVoiced(data, rise), StrSel(g))]
    /\ UNCHANGED <<pc, args, C, is_calibrated, cal, x, dB, windowTime, F0, CPPS, pitch,
                   cpps, pre, F0_mean_t, CPPS_mean_t, files, A, dose, raised, app, trace>>

\* frames handed to stimaLivello: the magnitudes of the bins below Fs/2 and
\* whether every sample is zero.  A frame of an even number of samples
\* alternating +a, -a has all its energy in the bin at Fs/2, which lines
\* 27-29 drop: it is not silent and every bin kept is 0.
MaxFrameSamples == 4
StimaFsVals == {20, 40}
Magnitudes == {DZero, D(1, -13), D(1, 0), D(3, 1)}
StimaFrames ==
    UNION {{[Fs |-> fs, len |-> n, X |-> X, silent |-> s] :
               fs \in StimaFsVals, X \in [1..((n + 1) \div 2) -> Magnitudes],
               s \in BOOLEAN} : n \in 1..MaxFrameSamples}
FrameExists(frame) ==
    LET dark == \A i \in 1..Len(frame.X) : frame.X[i] = DZero
    IN  /\ frame.silent => dark
        /\ (dark /\ ~frame.silent) => (frame.len % 2 = 0)
StimaConstants == {CalDefault, I(-30), PInf}

CallStima ==
    /\ call = NoCall
    /\ \E frame \in StimaFrames, c \in StimaConstants :
          /\ FrameExists(frame)
          /\ call' = [fn |-> "stimaLivello", frame |-> frame, C |-> c,
                      res |-> stimaLivelloFrame(frame, c),
                      top |-> stimaLivelloTopFrame(frame, c)]
    /\ UNCHANGED <<pc, args, C, is_calibrated, cal, x, dB, windowTime, F0, CPPS, pitch,
                   cpps, pre, F0_mean_t, CPPS_mean_t, files, A, dose, raised, app, trace>>

\* series and windows handed to _moving_mean_ignore_zeros
SeriesVals == {Zero, I(100), I(200), I(-5), NaN}
CallMovingMean ==
    /\ call = NoCall
    /\ \E n \in 1..MaxRows, win \in 0..(MaxWin + 2) :
          \E series \in [1..n -> SeriesVals] :
             call' = [fn |-> "_moving_mean_ignore_zeros", series |-> series,
                      win_len_frames |-> win,
                      res |-> MovingMeanIgnoreZeros(series, win)]
    /\ UNCHANGED <<pc, args, C, is_calibrated, cal, x, dB, windowTime, F0, CPPS, pitch,
                   cpps, pre, F0_mean_t, CPPS_mean_t, files, A, dose, raised, app, trace>>

\* recordings handed to the calibration leveler; at 50, 60 and 100 Hz
\* ceil(0.05 * Fs) is not a power of two
SplFastFsVals == {20, 50, 60, 100}
CallSPLFast ==
    /\ call = NoCall
    /\ \E fs \in SplFastFsVals, n \in 0..MaxLevelSamples, p \in {"loud", "silent-loud"} :
          LET sig == Recording(fs, n, FrameLenCal(fs), p)
          IN  call' = [fn |-> "SPL_fast", sig |-> sig, res |-> SPL_fast(sig),
                       frames |-> SPL_fast_frames(sig)]
    /\ UNCHANGED <<pc, args, C, is_calibrated, cal, x, dB, windowTime, F0, CPPS, pitch,
                   cpps, pre, F0_mean_t, CPPS_mean_t, files, A, dose, raised, app, trace>>

NextCalls ==
    \/ CallDOSI
    \/ CallLevelTH
    \/ CallCalibrate
    \/ CallDOSIProfiles
    \/ CallDOSIPair
    \/ CallStima
    \/ CallMovingMean
    \/ CallSPLFast

SpecCalls == Init /\ [][NextCalls]_vars

\* ----------------------------------------------------- voxdose_app.py
\* what a file dialog hands back: exec() and selectedFiles()
Dialogs(paths) ==
    {[exec |-> e, files |-> f] : e \in BOOLEAN, f \in {<< >>} \cup {<<q>> : q \in paths}}
Accepted(dialog) == dialog.exec /\ dialog.files # << >>

\* a monitoring file taken without touching the calibration selection
SelectFileKeepCalibration(a, dialog) ==
    IF Accepted(dialog)
    THEN [a EXCEPT !.wav_file = Some(dialog.files[1]), !.label_file = "Monitoring"]
    ELSE a

\* lines 361-373: select_file
SelectFile(a, dialog) ==
    IF Accepted(dialog)
    THEN [a EXCEPT !.wav_file = Some(dialog.files[1]), !.label_file = "Monitoring",
                   !.cal_file = NoneVal, !.label_cal = "No calibration file selected."]
    ELSE a

\* lines 375-382: select_calibration_file
SelectCalibrationFile(a, dialog) ==
    IF Accepted(dialog)
    THEN [a EXCEPT !.cal_file = Some(dialog.files[1]), !.label_cal = "Calibration"]
    ELSE a

\* lines 384-388: select_save_folder
SelectSaveFolder(a, folder) ==
    IF folder # ""
    THEN [a EXCEPT !.save_folder = Some(folder), !.label_save = "Save folder"]
    ELSE a

\* a reference distance of 50 cm whatever the answers
TargetDistanceFifty(uncalibrated, use_50cm, distance_cal) == Fin(1, 2)

\* line 453
TargetDistance(uncalibrated, use_50cm, distance_cal) ==
    IF ~uncalibrated /\ use_50cm THEN Fin(1, 2) ELSE distance_cal

\* lines 485-488: a column of the array the core returned
Column(results, j) == [col |-> j, of |-> results]

\* lines 390-622: run_analysis, given the answers to its prompts, the spin
\* boxes, how the core ended and whether the per-frame spreadsheet was
\* moved to the save folder.  Hands back the window's fields, the prompts
\* answered, and the core's keyword arguments if it was invoked.
RunAnalysis(a, resp, ans, ans_cal, distance_cal, level, outcome, moved) ==
    LET uncalibrated == a.cal_file = NoneVal
        use_50cm     == ~uncalibrated /\ ans = "Yes"
        asked        == IF uncalibrated
                        THEN [resp |-> resp, ans |-> NotAsked, ans_cal |-> NotAsked]
                        ELSE [resp |-> NotAsked, ans |-> ans, ans_cal |-> ans_cal]
        kwargs ==
            [fname |-> a.wav_file,
             calibration_file |-> IF uncalibrated THEN NoneVal ELSE a.cal_file,
             calibration_level_dBA |-> IF uncalibrated THEN NoneVal ELSE Some(level),
             distance_cal |-> distance_cal,
             target_distance_m |-> TargetDistance(uncalibrated, use_50cm, distance_cal)]
        results == [fname |-> a.wav_file, calibration_file |-> kwargs.calibration_file]
        excel   == IF a.save_folder # NoneVal /\ moved
                   THEN [dir |-> a.save_folder[1], xlsx |-> a.wav_file[1]]
                   ELSE [dir |-> "input", xlsx |-> a.wav_file[1]]
    IN  IF a.wav_file = NoneVal
        THEN [app |-> a, answers |-> NoAnswers, invoked |-> FALSE, kwargs |-> NoKwargs]
        ELSE IF uncalibrated /\ resp # "Yes"
        THEN [app |-> [a EXCEPT !.label_status = "Analysis canceled."],
              answers |-> asked, invoked |-> FALSE, kwargs |-> NoKwargs]
        ELSE IF ~uncalibrated /\ ans_cal = "No"
        THEN [app |-> a, answers |-> asked, invoked |-> FALSE, kwargs |-> NoKwargs]
        ELSE IF outcome = "raised"
        THEN [app |-> [a EXCEPT !.label_status = "Analysis failed."],
              answers |-> asked, invoked |-> TRUE, kwargs |-> kwargs]
        ELSE [app |-> [a EXCEPT !.last_excel_file = Some(excel),
                                !.time = Some(Column(results, 0)),
                                !.dB = Some(Column(results, 1)),
                                !.F0 = Some(Column(results, 2)),
                                !.label_status = "Analysis complete."],
              answers |-> asked, invoked |-> TRUE, kwargs |-> kwargs]

\* one click on a button of the window
Click(op, accepted) ==
    [trace EXCEPT !.clock = @ + 1, !.last = [op |-> op, accepted |-> accepted],
                  !.answers = NoAnswers, !.invoked = FALSE, !.kwargs = NoKwargs]

select_file ==
    /\ trace.clock < MaxClicks
    /\ \E dialog \in Dialogs(MonitoringPaths) :
          /\ app' = SelectFile(app, dialog)
          /\ trace' = [Click("select_file", Accepted(dialog)) EXCEPT
                          !.wavAt = IF Accepted(dialog) THEN trace.clock + 1 ELSE @]
    /\ UNCHANGED <<pc, args, C, is_calibrated, cal, x, dB, windowTime, F0, CPPS, pitch,
                   cpps, pre, F0_mean_t, CPPS_mean_t, files, A, dose, raised, call>>

select_calibration_file ==
    /\ trace.clock < MaxClicks
    /\ \E dialog \in Dialogs(CalibrationPaths) :
          /\ app' = SelectCalibrationFile(app, dialog)
          /\ trace' = [Click("select_calibration_file", Accepted(dialog)) EXCEPT
                          !.calAt = IF Accepted(dialog) THEN trace.clock + 1 ELSE @]
    /\ UNCHANGED <<pc, args, C, is_calibrated, cal, x, dB, windowTime, F0, CPPS, pitch,
                   cpps, pre, F0_mean_t, CPPS_mean_t, files, A, dose, raised, call>>

select_save_folder ==
    /\ trace.clock < MaxClicks
    /\ \E folder \in SaveFolders \cup {""} :
          /\ app' = SelectSaveFolder(app, folder)
          /\ trace' = Click("select_save_folder", folder # "")
    /\ UNCHANGED <<pc, args, C, is_calibrated, cal, x, dB, windowTime, F0, CPPS, pitch,
                   cpps, pre, F0_mean_t, CPPS_mean_t, files, A, dose, raised, call>>

run_analysis ==
    /\ trace.clock < MaxClicks
    /\ \E resp \in Answers, ans \in Answers, ans_cal \in Answers,
          distance_cal \in MicDistances, level \in CalLevels,
          outcome \in {"returned", "raised"}, moved \in BOOLEAN :
          LET r == RunAnalysis(app, resp, ans, ans_cal, distance_cal, level, outcome, moved)
          IN  /\ app' = r.app
              /\ trace' = [Click("run_analysis", TRUE) EXCEPT
                              !.answers = r.answers, !.invoked = r.invoked,
                              !.kwargs = r.kwargs]
    /\ UNCHANGED <<pc, args, C, is_calibrated, cal, x, dB, windowTime, F0, CPPS, pitch,
                   cpps, pre, F0_mean_t, CPPS_mean_t, files, A, dose, raised, call>>

NextGui ==
    \/ select_file
    \/ select_calibration_file
    \/ select_save_folder
    \/ run_analysis

SpecGui == Init /\ [][NextGui]_vars

\* ------------------------------------------------------------ properties
XGe(a, b) == XGt(a, b) \/ XEq(a, b)
\* the stages at which lines 136-153 have run
Aligned ==
    \/ pc \in {"average", "save", "dose", "saveDose", "summary", "done"}
    \/ pc = "raised" /\ raised.at \in {"np.convolve", "pd.DataFrame", "DOSI"}
\* the frames the monitoring leveler makes of a recording at its default
\* frame duration
FramesOf(rec) == Len(WindowStartTH(rec.len, FrameLenTH(rec.Fs, Duration)))
\* the selectors dosi.py documents: 'male', 'female', 'other', 1, 0
Documented(g) ==
    \/ g.ty = "str" /\ g.s \in {"male", "female", "other"}
    \/ g.ty = "int" /\ g.i \in {0, 1}
ShapeOk(data) == data.ndim = 2 /\ data.ncols >= 3

\* C1: once the timeline is aligned, a frame has F0 = 0 exactly when it has
\* SPL = 0, a frame with F0 = 0 has CPPS = 0, and a frame is nonzero exactly
\* when the detected F0 was nonzero and within [freq_low, freq_high] and the
\* distance-corrected SPL was at least 50 dB.
C1_CrossMask ==
    Aligned =>
        /\ Len(F0) = Len(dB)
        /\ Len(CPPS) = Len(dB)
        /\ \A i \in 1..Len(dB) :
              /\ XEq(F0[i], Zero) <=> XEq(dB[i], Zero)
              /\ XEq(F0[i], Zero) => XEq(CPPS[i], Zero)
              /\ pc = "average" =>
                    (~XEq(F0[i], Zero) <=>
                        /\ ~XEq(pre.F0in[i], Zero)
                        /\ XGe(pre.F0in[i], I(args.freq_low))
                        /\ XGe(I(args.freq_high), pre.F0in[i])
                        /\ XGe(pre.dBcorr[i], NoiseFloor))

\* C1 witness: an aligned timeline with one frame kept and one frame whose
\* F0 was in range and whose CPPS was nonzero, zeroed by the noise floor.
C1_Witness ==
    /\ pc = "average"
    /\ \E i \in 1..Len(dB) : ~XEq(F0[i], Zero) /\ ~XEq(dB[i], Zero)
    /\ \E i \in 1..Len(dB) :
          /\ XEq(F0[i], Zero) /\ XEq(CPPS[i], Zero)
          /\ XGe(pre.F0in[i], I(args.freq_low)) /\ XGe(I(args.freq_high), pre.F0in[i])
          /\ ~XEq(pre.CPPSin[i], Zero)
          /\ XLt(pre.dBcorr[i], NoiseFloor)

\* C2: DOSI raises ValueError when the data is not two-dimensional with at
\* least three columns, and when the gender selector is none of 'male',
\* 'female', 'other', 1, 0; no such selector is mapped to a profile.
C2_BadInputRaises ==
    (call.fn = "DOSI" /\ ~(ShapeOk(call.data) /\ Documented(call.gender_mode)))
        => call.res.raised = "ValueError"

\* C3: with no frame having both F0 > 0 and SPL > 0, DOSI returns 13
\* entries, every one exactly zero, under each gender profile.
C3_NoVoicedFrameAllZero ==
    (/\ call.fn = "DOSI"
     /\ call.res.raised = "none"
     /\ \A i \in 1..Len(call.data.rows) :
           ~(XGt(call.data.rows[i].f0, Zero) /\ XGt(call.data.rows[i].spl, Zero)))
        => /\ Len(call.res.dose) = 13
           /\ \A k \in 1..13 : EntryIsZero(call.res.dose, k)

\* C3 witness: a call on several frames, some with F0 > 0 and some with
\* SPL > 0 but none with both.
C3_Witness ==
    /\ call.fn = "DOSI"
    /\ call.res.raised = "none"
    /\ Len(call.data.rows) >= 2
    /\ \E i \in 1..Len(call.data.rows) : XGt(call.data.rows[i].f0, Zero)
    /\ \E i \in 1..Len(call.data.rows) : XGt(call.data.rows[i].spl, Zero)
    /\ \A i \in 1..Len(call.data.rows) :
          ~(XGt(call.data.rows[i].f0, Zero) /\ XGt(call.data.rows[i].spl, Zero))
    /\ \A k \in 1..13 : EntryIsZero(call.res.dose, k)

\* C4: a monitored recording that yields zero or one analysis frame does
\* not make the analysis raise.
C4_DegenerateRecordingDoesNotRaise ==
    (pc = "raised" /\ FramesOf(x) <= 1) => raised.at = "DOSI"

\* C5: a calibration that cannot be carried out (file unreadable, or too
\* short for one frame) leaves C = 50 and is_calibrated false and the
\* analysis goes on to level the recording; is_calibrated is true only when
\* file and level were given and the levelling succeeded, and then
\* C = 50 + level - SPL_mean_cal.
C5_CalibrationFallback ==
    pc # "calibrate" =>
        /\ cal.failed # "none" => (XEq(C, CalDefault) /\ ~is_calibrated)
        /\ ~(args.calibration_file.given /\ args.calibration_level_dBA.given)
              => (XEq(C, CalDefault) /\ ~is_calibrated)
        /\ is_calibrated =>
              /\ args.calibration_file.given /\ args.calibration_file.readable
              /\ args.calibration_level_dBA.given
              /\ cal.failed = "none"
              /\ C = XSub(XAdd(CalDefault, I(args.calibration_level_dBA.dBA)),
                          cal.SPL_mean_cal)
        /\ pc = "level" => raised = NoRaise
        /\ pc = "raised" => raised.at # "none"
        /\ pc \in {"pitch", "cpps"} /\ cal.failed # "none" =>
              \A i \in 1..Len(dB) :
                 \E e \in {Loud, Quiet, Silence} : dB[i] = stimaLivello(e, CalDefault)

\* C5 witness: a run whose calibration recording was too short for one
\* frame, finished with a dose vector.
C5_Witness ==
    /\ pc = "done"
    /\ cal.tried /\ cal.failed = "IndexError"
    /\ ~is_calibrated
    /\ Len(dose) = 13
    /\ Len(dB) >= 2

\* C6: after a successful calibration C = 50 + R - L0, and levelling the
\* calibration recording again with C gives mean level R, whatever the
\* number of frames.
C6_CalibratedMeanIsReference ==
    (/\ call.fn = "calibrate"
     /\ call.out.is_calibrated
     /\ IsFin(call.out.cal.SPL_mean_cal))
        => /\ XEq(call.out.C, XSub(XAdd(CalDefault, I(call.level)), call.out.cal.SPL_mean_cal))
           /\ XEq(call.again.SPL_mean, I(call.level))

\* C7: when pitch tracking raises or returns nothing, F0 is zeros of the
\* SPL series' length, the analysis completes without raising, and timeline
\* and dose are all zero.
C7_PitchFailureCompletes ==
    pitch \in {"raised", "empty"} =>
        /\ pc = "cpps" => F0 = ZerosLike(dB)
        /\ pc = "raised" => raised.at = "DOSI"
        /\ Aligned => \A i \in 1..Len(dB) : XEq(dB[i], Zero) /\ XEq(F0[i], Zero)
        /\ pc = "done" => \A k \in 1..13 : EntryIsZero(dose, k)

\* C8: when CPPS extraction is unavailable or raises, the CPPS series is
\* zeros of the SPL series' length and the analysis goes on; the timeline
\* is as long as the shorter of SPL and F0, and SPL, F0 and dose are what
\* SPL and F0 alone determine.
C8_CppsFallback ==
    cpps \in {"unavailable", "raised"} =>
        /\ pc = "align" => (raised = NoRaise /\ CPPS = ZerosLike(dB))
        /\ pc = "average" =>
              LET g == Gate(pre.dBcorr)
                  c == ClipF0(pre.F0in, args.freq_low, args.freq_high)
              IN  /\ pre.lens[4] = pre.lens[1]
                  /\ pre.limit = Min2(pre.lens[1], pre.lens[2])
                  /\ Len(dB) = pre.limit /\ Len(F0) = pre.limit
                  /\ \A i \in 1..pre.limit :
                        /\ dB[i] = (IF XEq(c[i], Zero) \/ XEq(g[i], Zero) THEN Zero ELSE g[i])
                        /\ F0[i] = (IF XEq(c[i], Zero) \/ XEq(g[i], Zero) THEN Zero ELSE c[i])
        /\ Aligned => CPPS = ZerosLike(dB)
        /\ pc = "done" =>
              /\ A = ColumnStack(windowTime, dB, F0)
              /\ dose = DOSI(A, args.gender_mode).dose

\* C8 witness: a finished run without CPPS whose timeline keeps voiced
\* frames and whose dose is not zero.
C8_Witness ==
    /\ pc = "done"
    /\ cpps = "unavailable"
    /\ Len(dB) >= 2
    /\ CPPS = ZerosLike(dB)
    /\ \E i \in 1..Len(dB) : ~XEq(F0[i], Zero)
    /\ ~EntryIsZero(dose, 1)

\* C9: the six per-frame series (time, SPL, F0, CPPS and the two moving
\* means) have one length, the least of the lengths of the input series,
\* for every recording length and every averaging window.
C9_SixSeriesOneLength ==
    /\ pc = "average" =>
          Len(dB) = Min2(Min2(pre.lens[1], pre.lens[2]), Min2(pre.lens[3], pre.lens[4]))
    /\ Aligned /\ pc # "average" =>
          /\ raised.at # "np.convolve"
          /\ Len(windowTime) = Len(dB) /\ Len(F0) = Len(dB) /\ Len(CPPS) = Len(dB)
          /\ Len(F0_mean_t) = Len(dB) /\ Len(CPPS_mean_t) = Len(dB)

\* C10: SPL_fast_C_TH cuts the recording into frames of round(duration*Fs)
\* samples starting at sample 0 and returns floor(len/N) frame levels.
C10_FramesFromSampleZero ==
    call.fn = "SPL_fast_C_TH" =>
        LET N == PyRound(XMul(call.duration, I(call.sig.Fs)))
        IN  /\ call.res.raised = "none"
            /\ Len(call.res.dB) = call.sig.len \div N
            /\ Len(call.res.dB) >= 1 =>
                  call.res.window_time[1] = Fin(MidSample(0, N), call.sig.Fs)

\* entry i of a dose vector is a finite number
EntryIsFinite(d, i) ==
    IF i \in {3, 4, 5, 7, 8, 9} THEN DIsFinite(FormalValue(d[i])) ELSE XIsFinite(d[i])
Profiles == {"male", "female", "other"}
\* the result of the call in flight under profile g
Under(g) ==
    CASE g = "male"   -> call.male
      [] g = "female" -> call.female
      [] OTHER        -> call.other

\* C11: for a two-dimensional three-column array of finite values with any
\* number of rows, under each of the three profiles, DOSI returns 13 entries
\* and each is finite.
C11_ThirteenFiniteEntries ==
    call.fn = "DOSI profiles" =>
        \A g \in Profiles :
           /\ Under(g).raised = "none"
           /\ Len(Under(g).dose) = 13
           /\ \A k \in 1..13 : EntryIsFinite(Under(g).dose, k)

\* C12: for every valid data array DOSI(data, 1) is DOSI(data, 'male') and
\* DOSI(data, 0) is DOSI(data, 'female'), entry for entry.
C12_IntAliases ==
    (call.fn = "DOSI" /\ ShapeOk(call.data)) =>
        /\ call.gender_mode = IntSel(1) => call.res = DOSI(call.data, StrSel("male"))
        /\ call.gender_mode = IntSel(0) => call.res = DOSI(call.data, StrSel("female"))

\* C12 witness: DOSI(data, 1) on a timeline with voiced frames, whose dose
\* is the male one and differs from the female one.
C12_Witness ==
    /\ call.fn = "DOSI"
    /\ call.gender_mode = IntSel(1)
    /\ call.res.raised = "none"
    /\ ~EntryIsZero(call.res.dose, 1)
    /\ call.res = DOSI(call.data, StrSel("male"))
    /\ call.res # DOSI(call.data, StrSel("female"))

\* the number of elements of s below v, and at or below v
Below(s, v) == Cardinality({k \in 1..Len(s) : XLt(s[k], v)})
AtOrBelow(s, v) == Cardinality({k \in 1..Len(s) : ~XGt(s[k], v)})
\* v is the element of rank r of s in increasing order
HasRank(s, v, r) == Below(s, v) <= r - 1 /\ AtOrBelow(s, v) >= r
\* m is the median of the non-empty s: the middle element in increasing
\* order, or the mean of the two middle elements
IsMedian(m, s) ==
    \E i, j \in 1..Len(s) :
       /\ HasRank(s, s[i], (Len(s) + 1) \div 2)
       /\ HasRank(s, s[j], Len(s) \div 2 + 1)
       /\ XEq(m, XDiv(XAdd(s[i], s[j]), I(2)))
\* the indices of the voiced-valid frames
VoicedValid(rows) == {i \in 1..Len(rows) : XGt(rows[i].f0, Zero) /\ XGt(rows[i].spl, Zero)}
RECURSIVE SumOver(_, _)
SumOver(f, S) ==
    IF S = {} THEN Zero
    ELSE LET i == CHOOSE k \in S : TRUE IN XAdd(f[i], SumOver(f, S \ {i}))
\* the strictly positive consecutive time differences of a timeline
PositiveDiffs(rows) ==
    SelectSeq([i \in 1..(Len(rows) - 1) |-> XSub(rows[i + 1].t, rows[i].t)],
              LAMBDA d : XGt(d, Zero))

C13_CorrectedLevelGated ==
    [][(pc = "align" /\ pc' = "average") =>
          LET corr == DistanceCorrection(args'.distance_cal, args'.target_distance_m)
          IN  \A i \in 1..Len(dB') :
                 LET raw       == dB[i]
                     corrected == XSub(dB[i], corr)
                     inRange   == /\ XGe(F0[i], I(args.freq_low))
                                  /\ XGe(I(args.freq_high), F0[i])
                 IN  /\ ~XEq(dB'[i], Zero) <=> (XGe(corrected, NoiseFloor) /\ inRange)
                     /\ ~XEq(dB'[i], Zero) => dB'[i] = corrected
                     /\ (XGe(raw, NoiseFloor) /\ XLt(corrected, NoiseFloor))
                           => XEq(dB'[i], Zero)
                     /\ (XLt(raw, NoiseFloor) /\ XGe(corrected, NoiseFloor) /\ inRange)
                           => ~XEq(dB'[i], Zero)]_vars

\* C13 witness: an aligned timeline with a frame whose raw level was below
\* 50 dB, whose corrected level is at least 50 dB, and which is kept.
C13_Witness ==
    /\ pc = "average"
    /\ \E i \in 1..Len(dB) :
          LET corr == DistanceCorrection(args.distance_cal, args.target_distance_m)
          IN  /\ XLt(XAdd(pre.dBcorr[i], corr), NoiseFloor)
              /\ XGe(pre.dBcorr[i], NoiseFloor)
              /\ ~XEq(dB[i], Zero)
              /\ dB[i] = pre.dBcorr[i]

\* b lies between a and c, ends included
DBetween(a, b, c) == (DLe(a, b) /\ DLe(b, c)) \/ (DLe(c, b) /\ DLe(b, a))
DStrictlyBetween(a, b, c) == (DLt(a, b) /\ DLt(b, c)) \/ (DLt(c, b) /\ DLt(b, a))
AllReturned == \A g \in Profiles : Under(g).raised = "none"
\* Dd, De, Dr and their rates in the dose vector
DoseEntries == {3, 4, 5, 7, 8, 9}

\* C15: for one timeline, each of Dd, De, Dr and their rates under 'other'
\* lies between its values under 'male' and under 'female', ends included,
\* and each of Pth, Pl, A, T, eta of a frame under 'other' is the mean of
\* the male and the female one.
C15_OtherBetween ==
    (call.fn = "DOSI profiles" /\ AllReturned) =>
        /\ \A k \in DoseEntries :
              DBetween(FormalValue(call.male.dose[k]), FormalValue(call.other.dose[k]),
                       FormalValue(call.female.dose[k]))
        /\ \A i \in VoicedValid(call.data.rows) :
              LET f0 == DOfX(call.data.rows[i].f0)
                  spl == DOfX(call.data.rows[i].spl)
                  ts == DOfX(TimeStep([j \in 1..Len(call.data.rows) |-> call.data.rows[j].t]))
                  m == FramePath("male", f0, spl, ts)
                  f == FramePath("female", f0, spl, ts)
                  o == FramePath("other", f0, spl, ts)
                  mean(a, b) == DMul(D(5, -1), DAdd(a, b))
              IN  /\ o.Pth = mean(m.Pth, f.Pth)
                  /\ o.Pl = mean(m.Pl, f.Pl)
                  /\ o.A = mean(m.A, f.A)
                  /\ o.T = mean(m.T, f.T)
                  /\ o.eta = mean(m.eta, f.eta)

\* C15 witness: a timeline of two voiced frames whose Dd and De under
\* 'other' are strictly between the male and the female values.
C15_Witness ==
    /\ call.fn = "DOSI profiles"
    /\ AllReturned
    /\ VoicedValid(call.data.rows) = 1..2
    /\ \A k \in {3, 4, 7, 8} :
          DStrictlyBetween(FormalValue(call.male.dose[k]), FormalValue(call.other.dose[k]),
                           FormalValue(call.female.dose[k]))

\* the frames with F0 > 0
Voiced(rows) == {i \in 1..Len(rows) : XGt(rows[i].f0, Zero)}
PairReturned ==
    call.fn = "DOSI pair" /\ call.first.raised = "none" /\ call.second.raised = "none"
\* entry k of the second dose is strictly larger than, or equal to, that of
\* the first
Larger(k) == DLt(FormalValue(call.first.dose[k]), FormalValue(call.second.dose[k]))
Same(k) == DEq(FormalValue(call.first.dose[k]), FormalValue(call.second.dose[k]))

SpectrumFinite(X_db) == \A i \in 1..Len(X_db) : XIsFinite(X_db[i])

\* C17: for a frame whose samples are all zero stimaLivello returns the
\* level -inf whatever C and a log-magnitude spectrum of finite entries; for
\* a frame that is not silent it returns a finite level.  Both copies of
\* stimaLivello are held to it.
C17_SilenceIsMinusInfinity ==
    call.fn = "stimaLivello" =>
        /\ call.frame.silent =>
              /\ call.res.dB = NInf /\ SpectrumFinite(call.res.X_db)
              /\ call.top.dB = NInf /\ SpectrumFinite(call.top.X_db)
        /\ (~call.frame.silent /\ IsFin(call.C)) =>
              XIsFinite(call.res.dB) /\ XIsFinite(call.top.dB)

\* C18: a finished analysis returns (A, dose): A has the three columns
\* [time, SPL, F0] of the aligned and masked timeline, one row per frame,
\* and dose is DOSI(A, gender_mode), of 13 entries.
C18_ReturnsTimelineAndDose ==
    pc = "done" =>
        /\ A.ndim = 2 /\ A.ncols = 3
        /\ Len(A.rows) = Len(dB) /\ Len(windowTime) = Len(dB) /\ Len(F0) = Len(dB)
        /\ \A i \in 1..Len(A.rows) :
              /\ A.rows[i] = [t |-> windowTime[i], spl |-> dB[i], f0 |-> F0[i]]
              /\ XEq(A.rows[i].spl, Zero) <=> XEq(A.rows[i].f0, Zero)
              /\ XEq(A.rows[i].spl, Zero) \/ XGe(A.rows[i].spl, NoiseFloor)
        /\ LET r == DOSI(A, args.gender_mode)
           IN  r.raised = "none" /\ dose = r.dose
        /\ Len(dose) = 13

\* C18 witness: a finished analysis of two or more frames, one of them
\* voiced, with a dose that is not zero.
C18_Witness ==
    /\ pc = "done"
    /\ Len(A.rows) >= 2
    /\ \E i \in 1..Len(A.rows) : XGt(A.rows[i].spl, Zero) /\ XGt(A.rows[i].f0, Zero)
    /\ \E i \in 1..Len(A.rows) : XGt(A.rows[i].t, Zero)
    /\ Len(dose) = 13
    /\ ~EntryIsZero(dose, 1)

\* the positions of the window of length win centred on position i (for an
\* even length, the extra position is on the left, as np.convolve has it)
Window(i, win, n) ==
    {j \in 1..n : j >= i - win \div 2 /\ j <= i - win \div 2 + win - 1}

\* C19: _moving_mean_ignore_zeros returns, for each position of the series,
\* the mean of the nonzero finite values in the window of the given length
\* centred on it, and exactly 0 where the window holds no such value.
C19_MeanOfNonzeroFinite ==
    (call.fn = "_moving_mean_ignore_zeros" /\ call.win_len_frames >= 1) =>
        LET n == Len(call.series)
        IN  /\ call.res.raised = "none"
            /\ Len(call.res.out) = n
            /\ \A i \in 1..n :
                  LET used == {j \in Window(i, call.win_len_frames, n) :
                                  ~XEq(call.series[j], Zero) /\ XIsFinite(call.series[j])}
                  IN  IF used = {} THEN call.res.out[i] = Zero
                      ELSE XEq(call.res.out[i],
                               XDiv(SumOver(call.series, used), I(Cardinality(used))))

\* mean is the sum of level[i] * dt over the time the frames span, which
\* for frames dt apart, each dt long, is Len(level) * dt
WeightedMean(level, dt, mean) ==
    XEq(mean, XDiv(XSum([i \in 1..Len(level) |-> XMul(level[i], dt)]),
                   XMul(I(Len(level)), dt)))
AllFinite(level) == \A i \in 1..Len(level) : IsFin(level[i])

\* C20: the mean level returned by SPL_fast and by SPL_fast_C_TH is the sum
\* of level[i] * dt over the total time the frames span, dt being the gap
\* of the first two frame times, and the deviation returned is the
\* population standard deviation of the frame levels (two or more frames,
\* finite levels).
C20_MeanOverElapsedTime ==
    /\ (/\ call.fn = "SPL_fast_C_TH"
        /\ call.res.raised = "none"
        /\ Len(call.res.dB) >= 2
        /\ AllFinite(call.res.dB))
          => /\ WeightedMean(call.res.dB,
                             XSub(call.res.window_time[2], call.res.window_time[1]),
                             call.res.SPL_mean)
             /\ XEq(call.res.SPL_std, XVar(call.res.dB))
    /\ (/\ call.fn = "calibrate"
        /\ call.again.raised = "none"
        /\ Len(call.again.dBA) >= 2
        /\ AllFinite(call.again.dBA))
          => /\ WeightedMean(call.again.dBA,
                             Fin(FrameLenCal(call.sig.Fs), call.sig.Fs),
                             call.again.SPL_mean)
             /\ XEq(call.again.SPL_std, XVar(call.again.dBA))

\* n is a power of two
IsPow2(n) == \E k \in 0..12 : n = 2 ^ k

\* C21: SPL_fast cuts the recording into frames of N samples, N the least
\* power of two >= ceil(0.05 * Fs), one frame for every complete block
\* starting at sample 0, N, 2N, ... (floor(len / N) frames); the monitoring
\* leveler frames the same recording differently.
C21_PowerOfTwoFraming ==
    call.fn = "SPL_fast" =>
        LET N  == call.frames.N
            c  == Ceil(XMul(Fin(1, 20), I(call.sig.Fs)))
            nf == Len(call.frames.window_start)
        IN  /\ IsPow2(N) /\ N >= c /\ (N > 1 => N \div 2 < c)
            /\ nf = call.sig.len \div N
            /\ Len(call.frames.dBA) = nf
            /\ \A i \in 1..nf : call.frames.window_start[i] = (i - 1) * N
            /\ call.res.raised = "none" <=> nf >= 1
            /\ nf >= 1 =>
                  call.frames.window_start
                     # WindowStartTH(call.sig.len, FrameLenTH(call.sig.Fs, Duration))

\* C21 witness: a recording at a rate for which ceil(0.05 * Fs) is not a
\* power of two, cut into two or more frames, with samples left over.
C21_Witness ==
    /\ call.fn = "SPL_fast"
    /\ call.res.raised = "none"
    /\ ~IsPow2(Ceil(XMul(Fin(1, 20), I(call.sig.Fs))))
    /\ Len(call.frames.window_start) >= 2
    /\ call.sig.len % call.frames.N # 0
    /\ WindowStartTH(call.sig.len, FrameLenTH(call.sig.Fs, Duration)) # << >>

\* the frame series of the call in flight: the frame length, the first
\* sample of each frame, the time stamps and the levels
Series ==
    IF call.fn = "SPL_fast"
    THEN [N |-> call.frames.N, start |-> call.frames.window_start,
          time |-> call.frames.window_time, value |-> call.frames.dBA]
    ELSE LET N == FrameLenTH(call.sig.Fs, call.duration)
         IN  [N |-> N, start |-> WindowStartTH(call.sig.len, N),
              time |-> call.res.window_time, value |-> call.res.dB]

\* C22: every frame series a leveler produces has as many time stamps as
\* levels, each the time of the sample at the middle of its frame (the
\* nearest sample, within half a sample), strictly increasing.
C22_FrameSeriesInvariant ==
    (call.fn \in {"SPL_fast", "SPL_fast_C_TH"} /\ call.res.raised = "none") =>
        /\ Len(Series.time) = Len(Series.value)
        /\ Len(Series.time) = Len(Series.start)
        /\ \A i \in 1..Len(Series.time) :
              LET mid  == Fin(2 * Series.start[i] + Series.N - 1, 2)
                  at   == XMul(Series.time[i], I(call.sig.Fs))
                  half == Fin(1, 2)
              IN  /\ ~XGt(XSub(at, mid), half) /\ ~XGt(XSub(mid, at), half)
                  /\ XGe(at, I(Series.start[i]))
                  /\ XLt(at, I(Series.start[i] + Series.N))
        /\ \A i \in 1..(Len(Series.time) - 1) : XLt(Series.time[i], Series.time[i + 1])

\* C22 witness: the monitoring leveler returning two or more frames of
\* three or more samples.
C22_Witness ==
    /\ call.fn = "SPL_fast_C_TH"
    /\ call.res.raised = "none"
    /\ Series.N >= 3
    /\ Len(Series.time) >= 2
    /\ Len(Series.time) = Len(Series.value)

\* the place of a stage in the order of analyze_wav_spl_f0
StageRank(stage) ==
    CASE stage = "calibrate" -> 1
      [] stage = "level"     -> 2
      [] stage = "pitch"     -> 3
      [] stage = "cpps"      -> 4
      [] stage = "align"     -> 5
      [] stage = "average"   -> 6
      [] stage = "save"      -> 7
      [] stage = "dose"      -> 8
      [] stage = "saveDose"  -> 9
      [] stage = "summary"   -> 10
      [] OTHER               -> 11

\* C23: in one run every stage is invoked at most once and in the order
\* calibration, levelling, pitch, CPPS, alignment, averaging, dose: every
\* step leaves its stage for a later one, a stage's result is written by
\* that stage alone, and a calibration, pitch or CPPS stage that fails hands
\* over to the next stage with its fallback.
C23_SinglePass ==
    [][/\ StageRank(pc') > StageRank(pc)
       /\ pc' \notin {"raised", "done"} => StageRank(pc') = StageRank(pc) + 1
       /\ (C' # C \/ is_calibrated' # is_calibrated \/ cal' # cal) => pc = "calibrate"
       /\ pc = "calibrate" => pc' = "level"
       /\ (x' # x) => pc = "level"
       /\ (pitch' # pitch) => (pc = "pitch" /\ pitch = "none")
       /\ pc = "pitch" => pc' = "cpps"
       /\ (cpps' # cpps) => (pc = "cpps" /\ cpps = "none")
       /\ pc = "cpps" => pc' = "align"
       /\ (pre' # pre /\ pre = NoPre) => pc = "align"
       /\ (F0_mean_t' # F0_mean_t \/ CPPS_mean_t' # CPPS_mean_t) => pc = "average"
       /\ (dose' # dose \/ A' # A) => pc = "dose"]_vars

\* C23 witness: a finished run whose calibration, pitch tracking and CPPS
\* extraction all failed.
C23_Witness ==
    /\ pc = "done"
    /\ cal.tried /\ cal.failed # "none"
    /\ pitch = "raised"
    /\ cpps = "raised"
    /\ Len(dose) = 13

\* C24: at every index i of the aligned timeline the i-th frame of the
\* monitoring leveler and the i-th frame of the CPPS extractor cover the
\* same samples of the recording, and time[i] lies in that interval.
C24_SameInterval ==
    (pc = "average" /\ cpps = "ok") =>
        LET N      == FrameLenTH(x.Fs, Duration)
            L      == CppsFrameLen(x.Fs)
            level  == WindowStartTH(x.len, N)
            cepstr == CppsWindowStart(x.len, x.Fs)
        IN  \A i \in 1..Len(dB) :
               /\ N = L
               /\ level[i] = cepstr[i]
               /\ XGe(windowTime[i], Fin(cepstr[i], x.Fs))
               /\ XLt(windowTime[i], Fin(cepstr[i] + L, x.Fs))

\* C25: the calibration constant applied to the monitored file is a finite
\* number whatever the calibration recording holds, and a calibration whose
\* recording has no finite mean level ends uncalibrated, C = 50.
C25_FiniteConstant ==
    pc # "calibrate" =>
        /\ IsFin(C)
        /\ (cal.tried /\ ~IsFin(cal.SPL_mean_cal)) => (XEq(C, CalDefault) /\ ~is_calibrated)

\* the timeline has two or more strictly increasing, uniformly spaced stamps
UniformTimeline(rows) ==
    /\ Len(rows) >= 2
    /\ \A i \in 1..(Len(rows) - 1) : XGt(rows[i + 1].t, rows[i].t)
    /\ \A i \in 1..(Len(rows) - 1) :
          XEq(XSub(rows[i + 1].t, rows[i].t), XSub(rows[2].t, rows[1].t))

\* C26: on a timeline of two or more strictly increasing, uniformly spaced
\* time stamps Dt_percentage lies between 0 and 100 inclusive, and is 100
\* only when every frame is voiced-valid.
C26_PercentageWithinHundred ==
    (call.fn = "DOSI" /\ call.res.raised = "none" /\ UniformTimeline(call.data.rows)) =>
        /\ XGe(call.res.dose[6], Zero)
        /\ XGe(I(100), call.res.dose[6])
        /\ XEq(call.res.dose[6], I(100)) =>
              VoicedValid(call.data.rows) = 1..Len(call.data.rows)

\* the unweighted arithmetic mean of column f over the frames S
MeanOver(f, S) == XDiv(SumOver(f, S), I(Cardinality(S)))

\* C27: when Dt > 0, SPL_mean and F0_mean are the unweighted arithmetic
\* means of SPL and F0 over the voiced-valid frames, whatever the time
\* stamps; a run with Dt > 0 reports an F0_mean within
\* [freq_low, freq_high] and an SPL_mean of 50 dB or more.
C27_UnweightedMeans ==
    (pc \in {"saveDose", "summary", "done"} /\ XGt(dose[1], Zero)) =>
        LET n   == Len(A.rows)
            kv  == VoicedValid(A.rows)
            spl == [i \in 1..n |-> A.rows[i].spl]
            f0  == [i \in 1..n |-> A.rows[i].f0]
        IN  /\ XEq(dose[10], MeanOver(spl, kv))
            /\ XEq(dose[11], MeanOver(f0, kv))
            /\ XGe(dose[11], I(args.freq_low))
            /\ XGe(I(args.freq_high), dose[11])
            /\ XGe(dose[10], NoiseFloor)

\* C27 witness: a finished run of two voiced-valid frames of different
\* level, whose SPL_mean lies strictly between the two, at 50 dB or more,
\* and whose F0_mean lies strictly inside the band.
C27_Witness ==
    /\ pc = "done"
    /\ XGt(dose[1], Zero)
    /\ VoicedValid(A.rows) = {1, 2}
    /\ XGt(A.rows[2].spl, A.rows[1].spl)
    /\ XGt(dose[10], A.rows[1].spl) /\ XGt(A.rows[2].spl, dose[10])
    /\ XGe(dose[10], NoiseFloor)
    /\ XGt(dose[11], I(args.freq_low)) /\ XGt(I(args.freq_high), dose[11])

\* C28: a run that fails with the input-validation error of DOSI (an
\* unrecognised gender_mode) has written no result file: no per-frame
\* spreadsheet, no dose spreadsheet, no summary image.
C28_NoFileOnValidationError ==
    (pc = "raised" /\ raised = [at |-> "DOSI", type |-> "ValueError"]) => files = {}

\* C29: an accepted selection of a monitoring file resets the calibration
\* file to none, so the calibration file passed to a run was selected after
\* the most recent selection of a monitoring file; a cancelled dialog of
\* either kind leaves both selections as they were.
C29_CalibrationFollowsMonitoring ==
    /\ [](/\ trace.last = [op |-> "select_file", accepted |-> TRUE]
                => app.cal_file = NoneVal
          /\ (trace.invoked /\ trace.kwargs.calibration_file # NoneVal)
                => /\ trace.kwargs.calibration_file = app.cal_file
                   /\ trace.kwargs.fname = app.wav_file
                   /\ trace.calAt > trace.wavAt
                   /\ trace.wavAt > 0)
    /\ [][(/\ trace'.last.op \in {"select_file", "select_calibration_file"}
           /\ ~trace'.last.accepted)
             => (app'.wav_file = app.wav_file /\ app'.cal_file = app.cal_file)]_vars

\* C29 witness: a monitoring file has just been selected while a calibration
\* file chosen earlier was in place, and the calibration file is none.
C29_Witness ==
    /\ trace.last = [op |-> "select_file", accepted |-> TRUE]
    /\ trace.calAt >= 1
    /\ trace.wavAt > trace.calAt
    /\ app.cal_file = NoneVal

\* the results the window keeps of its last analysis
Stored(a) == <<a.time, a.dB, a.F0, a.last_excel_file>>

\* C30: run_analysis invokes the core only with a monitoring file selected
\* and either no calibration file and Yes to the uncalibrated prompt (the
\* core then gets calibration_file = None, calibration_level_dBA = None and
\* the mic distance as target_distance_m) or a calibration file and the
\* level confirmed; on every other path the core is not invoked and time,
\* dB, F0 and last_excel_file stay as they were.
C30_CoreOnlyWhenConfirmed ==
    [][trace'.last.op = "run_analysis" =>
          IF trace'.invoked
          THEN /\ app.wav_file # NoneVal
               /\ trace'.kwargs.fname = app.wav_file
               /\ \/ /\ app.cal_file = NoneVal
                     /\ trace'.answers.resp = "Yes"
                     /\ trace'.kwargs.calibration_file = NoneVal
                     /\ trace'.kwargs.calibration_level_dBA = NoneVal
                     /\ trace'.kwargs.target_distance_m = trace'.kwargs.distance_cal
                  \/ /\ app.cal_file # NoneVal
                     /\ trace'.answers.ans_cal = "Yes"
                     /\ trace'.kwargs.calibration_file = app.cal_file
          ELSE /\ Stored(app') = Stored(app)
               /\ \/ app.wav_file = NoneVal
                  \/ app.cal_file = NoneVal /\ trace'.answers.resp = "No"
                  \/ app.cal_file # NoneVal /\ trace'.answers.ans_cal = "No"]_vars

\* C30 witness: an uncalibrated run confirmed with Yes has invoked the core
\* with the mic distance of 0.30 m as target distance and stored its results.
C30_Witness ==
    /\ trace.last.op = "run_analysis"
    /\ trace.invoked
    /\ trace.answers.resp = "Yes"
    /\ trace.kwargs.calibration_file = NoneVal
    /\ trace.kwargs.target_distance_m = Fin(3, 10)
    /\ app.time # NoneVal
    /\ app.last_excel_file # NoneVal

====
